---- MODULE Spec2Model ----
(***************************************************************************)
(* Verification model of the sleep-data harmonizer: the ingest endpoint    *)
(* (idempotency claim -> pipeline -> complete), the ingestion pipeline     *)
(* (archive -> adapter -> validate -> upsert / quarantine), replay from    *)
(* the raw archive, and the relational store they share.                   *)
(*                                                                         *)
(* Time is counted in days: one clock unit is 24 hours, so date.today()    *)
(* is the clock and the idempotency TTL (24 hours) is one unit.  now() of  *)
(* the database is the start time of the current transaction.              *)
(*                                                                         *)
(* Nullable values are sequences of length <= 1: <<>> is None, <<v>> is v. *)
(* Text that the code hashes, compares or concatenates is a sequence of    *)
(* one-character strings.                                                  *)
(***************************************************************************)
EXTENDS Integers, Sequences, FiniteSets, TLC

\* ------------------------------------------------------------------ bounds
\* Last day the model's clock reaches.
MaxClock == 2
\* Number of calls the sequential caller of SpecSeq makes.
MaxCalls == 3
\* Number of concurrent endpoint requests of Spec.
NumWorkers == 2
\* The most rows sleep_days comes to hold while a client pages through it.
MaxPageRows == 3
\* The largest page size a client asks for.
MaxLimit == 2

\* ------------------------------------------------------- program constants
IDEMPOTENCY_TTL == 1
MAX_DAILY_MINUTES == 1440
\* _STAGE_SUM_TOLERANCE = 1.05, in hundredths.
STAGE_SUM_TOLERANCE_PCT == 105
HTTP_CREATED == 201
HTTP_OK == 200
\* settings.retry_max_attempts
retry_max_attempts == 3

\* ----------------------------------------------------------------- options
None == <<>>
Some(v) == <<v>>
IsNone(o) == o = <<>>
IsSome(o) == o # <<>>
Val(o) == o[1]

\* ------------------------------------------------------------------- text
DigitChar == <<"0", "1", "2", "3", "4", "5", "6", "7", "8", "9">>

\* str(n) for a natural number n.
RECURSIVE StrNat(_)
StrNat(n) ==
    IF n < 10 THEN <<DigitChar[n + 1]>>
    ELSE StrNat(n \div 10) \o <<DigitChar[(n % 10) + 1]>>

\* date.isoformat(): the model's dates are the days of one month, printed
\* with the fixed-width day number after the constant year-month prefix.
IsoFormat(d) ==
    <<"2", "4", "-", "0", "3", "-">> \o <<DigitChar[(d \div 10) + 1], DigitChar[(d % 10) + 1]>>

\* SleepSource(...).value as text.
SourceValue(source) ==
    IF source = "oura" THEN <<"o", "u", "r", "a">>
    ELSE <<"w", "i", "t", "h", "i", "n", "g", "s">>

ALLOWED_SOURCES == {"oura", "withings"}

\* hashlib.sha256(...).hexdigest(), taken as collision-free: the digest of a
\* text is represented by the text itself.
Sha256(text) == text

\* A plausible slip: the separator between the parts is left out.
compute_fingerprint_nosep(source, source_record_id, effective_date) ==
    Sha256(SourceValue(source) \o source_record_id \o IsoFormat(effective_date))

\* A plausible slip: the effective date is left out of the hashed text.
compute_fingerprint_nodate(source, source_record_id, effective_date) ==
    Sha256(SourceValue(source) \o <<":">> \o source_record_id)

compute_fingerprint(source, source_record_id, effective_date) ==
    Sha256(SourceValue(source) \o <<":">> \o source_record_id \o <<":">>
           \o IsoFormat(effective_date))

\* --------------------------------------------------------------- adapters
\* A plausible slip: minutes rounded to the nearest instead of floored.
sec_to_min_nearest(seconds) ==
    IF IsNone(seconds) THEN None ELSE Some((Val(seconds) + 30) \div 60)

\* seconds // 60, None passthrough.
sec_to_min(seconds) ==
    IF IsNone(seconds) THEN None ELSE Some(Val(seconds) \div 60)

\* Ratios are kept in units of 1e-4 (the 4 decimals the code rounds to).
\* round(pct / 100.0, 4) of an integer percentage is pct * 100 units.
pct_to_ratio(pct) ==
    IF IsNone(pct) THEN None ELSE Some(Val(pct) * 100)

\* round(x / 100) to the nearest unit, ties to even (Python's round).
RoundDiv100(x) ==
    LET q == x \div 100
        r == x % 100
    IN  IF r > 50 \/ (r = 50 /\ q % 2 = 1) THEN q + 1 ELSE q

\* SleepDay.normalize_efficiency: a value above 1.0 is read as a percentage.
normalize_efficiency(v) ==
    IF IsNone(v) THEN None
    ELSE IF Val(v) > 10000 THEN Some(RoundDiv100(Val(v)))
    ELSE v

MinuteFields ==
    {"total_sleep_minutes", "deep_sleep_minutes", "light_sleep_minutes",
     "rem_sleep_minutes", "awake_minutes"}

StageFields ==
    <<"deep_sleep_minutes", "light_sleep_minutes", "rem_sleep_minutes", "awake_minutes">>

\* The Field(ge=..., le=...) constraints of the SleepDay model: constructing
\* a SleepDay that breaks one raises.
SleepDayConstraintsOk(rec) ==
    /\ \A f \in MinuteFields : IsSome(rec[f]) => Val(rec[f]) >= 0
    /\ IsSome(rec.sleep_efficiency) =>
           (Val(rec.sleep_efficiency) >= 0 /\ Val(rec.sleep_efficiency) <= 10000)

\* An Oura entry with every field the mapper reads; absent keys are None.
OuraEntry(id, day, total, deep, eff, start, end) ==
    [id |-> id, day |-> day, type |-> "long_sleep", period |-> 0,
     total_sleep_duration |-> total, deep_sleep_duration |-> deep,
     light_sleep_duration |-> None, rem_sleep_duration |-> None,
     awake_time |-> None, efficiency |-> eff,
     bedtime_start |-> start, bedtime_end |-> end, latency |-> None]

\* Filter policy of OuraMapper.parse.
OuraKeeps(entry) == entry.type = "long_sleep" /\ entry.period = 0

\* The SleepDay OuraMapper.parse builds for one entry that has id and day.
OuraSleepDay(entry, patient_id, now, new_id) ==
    [id |-> new_id,
     patient_id |-> patient_id,
     source |-> "oura",
     source_record_id |-> Val(entry.id),
     raw_payload |-> entry,
     fingerprint |-> compute_fingerprint("oura", Val(entry.id), Val(entry.day)),
     effective_date |-> Val(entry.day),
     ingested_at |-> now,
     updated_at |-> now,
     total_sleep_minutes |-> sec_to_min(entry.total_sleep_duration),
     deep_sleep_minutes |-> sec_to_min(entry.deep_sleep_duration),
     light_sleep_minutes |-> sec_to_min(entry.light_sleep_duration),
     rem_sleep_minutes |-> sec_to_min(entry.rem_sleep_duration),
     awake_minutes |-> sec_to_min(entry.awake_time),
     sleep_onset |-> entry.bedtime_start,
     sleep_offset |-> entry.bedtime_end,
     sleep_efficiency |-> normalize_efficiency(pct_to_ratio(entry.efficiency)),
     extra |-> [latency_minutes |-> sec_to_min(entry.latency),
                sleep_type |-> Some(entry.type)]]

\* entry["day"] / entry["id"] raise KeyError when absent; the SleepDay
\* constructor raises when a constraint is broken.
OuraEntryRaises(entry) ==
    \/ IsNone(entry.day)
    \/ IsNone(entry.id)
    \/ ~SleepDayConstraintsOk(OuraSleepDay(entry, "p", 0, 0))

\* A Withings series entry; absent keys are None.
WithingsEntry(id, date, startdate, enddate, timezone, total, eff) ==
    [id |-> id, date |-> date, startdate |-> startdate, enddate |-> enddate,
     timezone |-> timezone, total_sleep_time |-> total,
     deepsleepduration |-> None, lightsleepduration |-> None,
     remsleepduration |-> None, wakeupduration |-> None,
     sleep_efficiency |-> eff, sleep_latency |-> None, durationtosleep |-> None,
     wakeup_latency |-> None, durationtowakeup |-> None]

\* source_record_id: `id` if present, else f"{startdate}_{enddate}".
WithingsSourceId(entry) ==
    IF IsSome(entry.id) THEN Val(entry.id)
    ELSE (IF IsSome(entry.startdate) THEN StrNat(Val(entry.startdate)) ELSE <<>>)
         \o <<"_">> \o
         (IF IsSome(entry.enddate) THEN StrNat(Val(entry.enddate)) ELSE <<>>)

\* a or b of Python on optional integers: b when a is None or 0.
PyOr(a, b) == IF IsNone(a) \/ a = Some(0) THEN b ELSE a

\* datetime.fromtimestamp(ts, tz=tz or UTC): always timezone-aware.
unix_to_dt(ts) ==
    IF IsNone(ts) THEN None ELSE Some([t |-> Val(ts), tz |-> TRUE])

WithingsSleepDay(entry, patient_id, now, new_id) ==
    [id |-> new_id,
     patient_id |-> patient_id,
     source |-> "withings",
     source_record_id |-> WithingsSourceId(entry),
     raw_payload |-> entry,
     fingerprint |-> compute_fingerprint("withings", WithingsSourceId(entry),
                                         Val(entry.date)),
     effective_date |-> Val(entry.date),
     ingested_at |-> now,
     updated_at |-> now,
     total_sleep_minutes |-> sec_to_min(entry.total_sleep_time),
     deep_sleep_minutes |-> sec_to_min(entry.deepsleepduration),
     light_sleep_minutes |-> sec_to_min(entry.lightsleepduration),
     rem_sleep_minutes |-> sec_to_min(entry.remsleepduration),
     awake_minutes |-> sec_to_min(entry.wakeupduration),
     sleep_onset |-> unix_to_dt(entry.startdate),
     sleep_offset |-> unix_to_dt(entry.enddate),
     sleep_efficiency |-> normalize_efficiency(entry.sleep_efficiency),
     extra |-> [latency_minutes |->
                    sec_to_min(PyOr(entry.sleep_latency, entry.durationtosleep)),
                wakeup_latency_minutes |->
                    sec_to_min(PyOr(entry.wakeup_latency, entry.durationtowakeup)),
                sleep_type |-> None]]

WithingsEntryRaises(entry) ==
    \/ IsNone(entry.date)
    \/ ~SleepDayConstraintsOk(WithingsSleepDay(entry, "p", 0, 0))

\* A plausible slip: the mappers skip an entry that raises and go on with
\* the next one.
MapperEntries_skip_bad(source, raw_payload) ==
    LET Good(e) == OuraKeeps(e) /\ ~OuraEntryRaises(e)
    IN  IF raw_payload.shape # source THEN <<>>
        ELSE IF source = "oura" THEN SelectSeq(raw_payload.entries, Good)
        ELSE SelectSeq(raw_payload.entries, LAMBDA e : ~WithingsEntryRaises(e))

\* A raw payload is [shape, entries]: shape "oura" is {"data": [...]},
\* shape "withings" is {"status": 0, "body": {"series": [...]}}.  Each
\* mapper reads its own key with a default of [], so the other vendor's
\* payload maps to no candidates.
MapperEntries(source, raw_payload) ==
    IF raw_payload.shape # source THEN <<>>
    ELSE IF source = "oura" THEN SelectSeq(raw_payload.entries, OuraKeeps)
    ELSE raw_payload.entries

\* adapter.parse raises: some entry it processes raises.
ParseRaises(source, raw_payload) ==
    LET es == MapperEntries(source, raw_payload)
    IN  \E i \in 1..Len(es) :
            IF source = "oura" THEN OuraEntryRaises(es[i]) ELSE WithingsEntryRaises(es[i])

\* A plausible slip: the candidates come out in reverse input order.
Parse_reversed(source, raw_payload, patient_id, now, first_id) ==
    LET es == MapperEntries(source, raw_payload)
    IN  [i \in 1..Len(es) |->
            IF source = "oura"
            THEN OuraSleepDay(es[Len(es) + 1 - i], patient_id, now, first_id + i - 1)
            ELSE WithingsSleepDay(es[Len(es) + 1 - i], patient_id, now, first_id + i - 1)]

\* adapter.parse(raw_payload, patient_id): the candidates in input order.
\* Each SleepDay gets a fresh id (uuid4): first_id + its position.
Parse(source, raw_payload, patient_id, now, first_id) ==
    LET es == MapperEntries(source, raw_payload)
    IN  [i \in 1..Len(es) |->
            IF source = "oura"
            THEN OuraSleepDay(es[i], patient_id, now, first_id + i - 1)
            ELSE WithingsSleepDay(es[i], patient_id, now, first_id + i - 1)]

\* ------------------------------------------------------------- validation
\* sleep_day.model_dump(): the record as the dict the validator reads; the
\* validator treats effective_date as optional.
model_dump(sleep_day) == [sleep_day EXCEPT !.effective_date = Some(@)]

VError(field, rule, reason) == [field |-> field, rule |-> rule, reason |-> reason]

\* record.get(f, 0) or 0
OrZero(o) == IF IsNone(o) THEN 0 ELSE Val(o)

StageSum(record) ==
    OrZero(record.deep_sleep_minutes) + OrZero(record.light_sleep_minutes)
    + OrZero(record.rem_sleep_minutes) + OrZero(record.awake_minutes)

Rule1(record) ==
    IF IsNone(record.effective_date)
    THEN <<VError("effective_date", "required", "missing_effective_date")>> ELSE <<>>

Rule2(record) ==
    IF /\ IsSome(record.total_sleep_minutes)
       /\ (Val(record.total_sleep_minutes) < 0
           \/ Val(record.total_sleep_minutes) > MAX_DAILY_MINUTES)
    THEN <<VError("total_sleep_minutes", "range", "sleep_duration_out_of_range")>>
    ELSE <<>>

Rule3Field(record, f) ==
    IF IsSome(record[f]) /\ Val(record[f]) < 0
    THEN <<VError(f, "non_negative", "negative_sleep_stage")>> ELSE <<>>

Rule3(record) ==
    Rule3Field(record, StageFields[1]) \o Rule3Field(record, StageFields[2])
    \o Rule3Field(record, StageFields[3]) \o Rule3Field(record, StageFields[4])

\* A plausible slip: the tolerance bound itself is rejected (>= for >).
Rule4_geq(record) ==
    IF /\ IsSome(record.total_sleep_minutes)
       /\ StageSum(record) * 100 >= Val(record.total_sleep_minutes) * STAGE_SUM_TOLERANCE_PCT
    THEN <<VError("stage_sum", "consistency", "stage_sum_exceeds_total")>> ELSE <<>>

\* stage_sum > total * 1.05, in hundredths.
Rule4(record) ==
    IF /\ IsSome(record.total_sleep_minutes)
       /\ StageSum(record) * 100 > Val(record.total_sleep_minutes) * STAGE_SUM_TOLERANCE_PCT
    THEN <<VError("stage_sum", "consistency", "stage_sum_exceeds_total")>> ELSE <<>>

\* A plausible slip: the future-date rule compares with >= instead of >.
Rule5_geq(record, today) ==
    IF IsSome(record.effective_date) /\ Val(record.effective_date) >= today
    THEN <<VError("effective_date", "no_future", "future_date")>> ELSE <<>>

Rule5(record, today) ==
    IF IsSome(record.effective_date) /\ Val(record.effective_date) > today
    THEN <<VError("effective_date", "no_future", "future_date")>> ELSE <<>>

Rule6(record) ==
    IF /\ IsSome(record.sleep_efficiency)
       /\ (Val(record.sleep_efficiency) < 0 \/ Val(record.sleep_efficiency) > 10000)
    THEN <<VError("sleep_efficiency", "range", "efficiency_out_of_range")>> ELSE <<>>

Rule7Field(record, f) ==
    IF IsSome(record[f]) /\ ~Val(record[f]).tz
    THEN <<VError(f, "timezone", "missing_timezone")>> ELSE <<>>

Rule7(record) == Rule7Field(record, "sleep_onset") \o Rule7Field(record, "sleep_offset")

Rule8(record) ==
    IF record.source \notin ALLOWED_SOURCES
    THEN <<VError("source", "known_source", "unknown_source")>> ELSE <<>>

\* A plausible slip: the ordering rule is left out.
Rule9_skipped(record) == <<>>

Rule9(record) ==
    IF /\ IsSome(record.sleep_onset) /\ IsSome(record.sleep_offset)
       /\ Val(record.sleep_onset).tz /\ Val(record.sleep_offset).tz
       /\ Val(record.sleep_onset).t >= Val(record.sleep_offset).t
    THEN <<VError("sleep_onset", "ordering", "bedtime_order_invalid")>> ELSE <<>>

\* A plausible slip: validation stops at the first violation it finds.
validate_sleep_record_first(record, today) ==
    LET all == Rule1(record) \o Rule2(record) \o Rule3(record) \o Rule4(record)
               \o Rule5(record, today) \o Rule6(record) \o Rule7(record)
               \o Rule8(record) \o Rule9(record)
    IN  IF all = <<>> THEN <<>> ELSE <<all[1]>>

\* validate_sleep_record(record) with date.today() = today: every violation,
\* in rule order; the empty list means valid.
validate_sleep_record(record, today) ==
    Rule1(record) \o Rule2(record) \o Rule3(record) \o Rule4(record)
    \o Rule5(record, today) \o Rule6(record) \o Rule7(record) \o Rule8(record)
    \o Rule9(record)

\* ---------------------------------------------------------- model inputs
Workers == 1..NumWorkers
Keys == {"k1"}
Patients == {"pA"}

Aware(t) == Some([t |-> t, tz |-> TRUE])
Naive(t) == Some([t |-> t, tz |-> FALSE])

\* One valid night, id "a", day 1.
EntryA == OuraEntry(Some(<<"a">>), Some(1), Some(28800), Some(5400), Some(88),
                    Aware(1), Aware(2))
\* The same night re-sent with other measurements (same fingerprint).
EntryA2 == OuraEntry(Some(<<"a">>), Some(1), Some(26010), Some(5160), Some(90),
                     Aware(1), Aware(2))
\* A night dated day 2: in the future while the clock is at day 1.
EntryB == OuraEntry(Some(<<"b">>), Some(2), Some(27000), None, None, None, None)
\* The native id "a" used again for day 0.
EntryA0 == OuraEntry(Some(<<"a">>), Some(0), Some(24000), None, None, None, None)
\* A night whose native id "c" is used again for another day by EntryC0.
EntryC == OuraEntry(Some(<<"c">>), Some(1), Some(25200), None, Some(80), None, None)
EntryC0 == OuraEntry(Some(<<"c">>), Some(0), Some(24000), None, None, None, None)
\* A night whose bedtime end is not after its start.
EntryBadOrder == OuraEntry(Some(<<"d">>), Some(1), Some(20000), None, None,
                           Aware(2), Aware(2))
\* A night dated day 2 whose bedtime end is not after its start.
EntryBadFuture == OuraEntry(Some(<<"d">>), Some(2), Some(20000), None, None,
                            Aware(2), Aware(2))
\* A night with a negative duration: the SleepDay constructor raises.
EntryNegative == OuraEntry(Some(<<"e">>), Some(1), Some(0 - 60), None, None, None, None)
EntryW == WithingsEntry(None, Some(1), Some(10), Some(20), None, Some(27000), Some(8500))

Payload(shape, entries) == [shape |-> shape, entries |-> entries]

PayA == Payload("oura", <<EntryA>>)
PayA2 == Payload("oura", <<EntryA2>>)
PayFuture == Payload("oura", <<EntryB>>)
PayReuse == Payload("oura", <<EntryBadFuture, EntryC, EntryC0>>)
PayMixed == Payload("oura", <<EntryBadOrder, EntryA>>)
PayNegative == Payload("oura", <<EntryA, EntryNegative>>)
PayW == Payload("withings", <<EntryW>>)

PayA0 == Payload("oura", <<EntryA0>>)
PayBad == Payload("oura", <<EntryNegative>>)

\* The request bodies the endpoint receives in Spec: a valid night, the same
\* native id on another day, and a payload the adapter cannot parse.
EndpointInputs ==
    {[source |-> "oura", patient_id |-> "pA", data |-> PayA],
     [source |-> "oura", patient_id |-> "pA", data |-> PayA0],
     [source |-> "oura", patient_id |-> "pA", data |-> PayBad]}

\* A request as the endpoint receives it: the Idempotency-Key header (the
\* empty text when the header is absent), the path's source and the body.
Request(key, in) ==
    [key |-> key, source |-> in.source, patient_id |-> in.patient_id, data |-> in.data]

\* Requests the endpoint turns away before the claim: no key, a source that
\* is not supported, and both.
RejectedRequests ==
    {[key |-> "", source |-> "oura", patient_id |-> "pA", data |-> PayA],
     [key |-> "k1", source |-> "fitbit", patient_id |-> "pA", data |-> PayA],
     [key |-> "", source |-> "fitbit", patient_id |-> "pA", data |-> PayA]}

EndpointRequests ==
    {Request(key, in) : key \in Keys, in \in EndpointInputs} \cup RejectedRequests

\* Requests of several clients: the night "a" under key "k1", the same
\* night re-sent with other measurements under key "k2", once for the same
\* patient and once for another patient, and the first body sent with its
\* key to the other source's endpoint.
SharedRequests ==
    {[key |-> "k1", source |-> "oura", patient_id |-> "pA", data |-> PayA],
     [key |-> "k2", source |-> "oura", patient_id |-> "pA", data |-> PayA2],
     [key |-> "k2", source |-> "oura", patient_id |-> "pB", data |-> PayA2],
     [key |-> "k1", source |-> "withings", patient_id |-> "pA", data |-> PayA]}

\* ------------------------------------------------------------------ state
VARIABLES
    clock,                  \* wall clock, in days
    idempotency_keys,       \* committed rows of idempotency_keys
    sleep_days,             \* committed rows of sleep_days
    raw_vendor_responses,   \* committed rows of raw_vendor_responses, in insert order
    quarantine_records,     \* committed rows of quarantine_records, in insert order
    next_uuid,              \* the next fresh id uuid4() hands out
    pc,                     \* where each worker is suspended
    call,                   \* the arguments of each worker's current call
    txn,                    \* each worker's open database transaction
    claim,                  \* what atomic_claim_idempotency_key returned to the worker
    pipe,                   \* locals of the worker's running ingest_sleep_data
    response,               \* the HTTP status and data the endpoint answered with
    replay,                 \* locals of the worker's running replay_from_raw
    history,                \* what the sequential caller has observed so far
    reader,                 \* a client following timeline or provenance cursors
    fetch,                  \* a vendor fetch in progress in fetch_with_retry
    probe                   \* the last application of a pure function and its result

vars ==
    <<clock, idempotency_keys, sleep_days, raw_vendor_responses, quarantine_records,
      next_uuid, pc, call, txn, claim, pipe, response, replay, history,
      reader, fetch, probe>>

\* ------------------------------------------------------------ transactions
\* A session with no transaction open.
NoTxn ==
    [open |-> FALSE, now |-> 0, idem_del |-> {}, idem_ins |-> {},
     rows |-> {}, raws |-> <<>>, quars |-> <<>>]

\* The session begins a transaction at its first statement; now() is the
\* transaction's start time.
Begun(t) == IF t.open THEN t ELSE [t EXCEPT !.open = TRUE, !.now = clock]

SameNativeId(r1, r2) ==
    r1.source = r2.source /\ r1.source_record_id = r2.source_record_id

\* sleep_days as worker w's transaction sees it: the committed rows, with
\* the rows its own transaction wrote in place of the versions they replace.
SleepDaysView(w) ==
    {r \in sleep_days : \A p \in txn[w].rows : p.fingerprint # r.fingerprint}
    \cup txn[w].rows

\* A plausible slip: sleep_days without unique indexes, so a write never
\* waits for another transaction's uncommitted row.
RowLockedByOther_never(w, rec) == FALSE

\* Another transaction holds an uncommitted row that the write of rec has to
\* wait for (same fingerprint, or same source and native id).
RowLockedByOther(w, rec) ==
    \E v \in Workers \ {w} : \E p \in txn[v].rows :
        p.fingerprint = rec.fingerprint \/ SameNativeId(p, rec)

\* session.commit(): the transaction's writes become the committed state.
CommittedIdem(w) == (idempotency_keys \ txn[w].idem_del) \cup txn[w].idem_ins
CommittedSleepDays(w) == SleepDaysView(w)
CommittedRaws(w) == raw_vendor_responses \o txn[w].raws
CommittedQuars(w) == quarantine_records \o txn[w].quars

\* -------------------------------------------------------------- repository
\* The CHECK constraints of sleep_days.
CheckConstraintsOk(rec) ==
    /\ \A f \in MinuteFields : IsSome(rec[f]) => Val(rec[f]) >= 0
    /\ IsSome(rec.sleep_efficiency) =>
           (Val(rec.sleep_efficiency) >= 0 /\ Val(rec.sleep_efficiency) <= 10000)
    /\ (IsNone(rec.sleep_offset) \/ IsNone(rec.sleep_onset)
        \/ Val(rec.sleep_offset).t > Val(rec.sleep_onset).t)

\* A plausible slip: sleep_days without the unique constraint on
\* (source, source_record_id).
upsert_outcome_fingerprint_only(view, rec) ==
    IF ~CheckConstraintsOk(rec) THEN "integrity_error"
    ELSE IF \E r \in view : r.fingerprint = rec.fingerprint THEN "updated"
    ELSE "inserted"

\* What INSERT ... ON CONFLICT (fingerprint) DO UPDATE does with rec against
\* the rows the transaction sees: the fingerprint index arbitrates the
\* conflict; any other constraint the insert breaks raises IntegrityError.
upsert_outcome(view, rec) ==
    IF ~CheckConstraintsOk(rec) THEN "integrity_error"
    ELSE IF \E r \in view : r.fingerprint = rec.fingerprint THEN "updated"
    ELSE IF \E r \in view : SameNativeId(r, rec) THEN "integrity_error"
    ELSE "inserted"

\* A plausible slip: the set_ clause lists the measurement columns only.
upsert_set_measurements(existing, rec, now) ==
    [existing EXCEPT
        !.total_sleep_minutes = rec.total_sleep_minutes,
        !.deep_sleep_minutes = rec.deep_sleep_minutes,
        !.light_sleep_minutes = rec.light_sleep_minutes,
        !.rem_sleep_minutes = rec.rem_sleep_minutes,
        !.awake_minutes = rec.awake_minutes,
        !.sleep_efficiency = rec.sleep_efficiency]

\* A plausible slip: the set_ clause also hands the row to the patient of
\* the incoming record.
upsert_set_with_patient(existing, rec, now) ==
    [rec EXCEPT !.id = existing.id, !.ingested_at = existing.ingested_at,
                !.updated_at = now]

\* A plausible slip: the conflict replaces the stored row by the incoming
\* one, with its fresh id and ingested_at.
upsert_set_replace(existing, rec, now) == rec

\* The set_ clause of the upsert: the columns overwritten on conflict.
upsert_set(existing, rec, now) ==
    [existing EXCEPT
        !.total_sleep_minutes = rec.total_sleep_minutes,
        !.deep_sleep_minutes = rec.deep_sleep_minutes,
        !.light_sleep_minutes = rec.light_sleep_minutes,
        !.rem_sleep_minutes = rec.rem_sleep_minutes,
        !.awake_minutes = rec.awake_minutes,
        !.sleep_efficiency = rec.sleep_efficiency,
        !.sleep_onset = rec.sleep_onset,
        !.sleep_offset = rec.sleep_offset,
        !.extra = rec.extra,
        !.raw_payload = rec.raw_payload,
        !.updated_at = now]

\* The row the upsert leaves behind (written or rewritten).
upsert_row(view, rec, now) ==
    IF \E r \in view : r.fingerprint = rec.fingerprint
    THEN upsert_set(CHOOSE r \in view : r.fingerprint = rec.fingerprint, rec, now)
    ELSE rec

\* upsert's return value: the row's id and (xmax = 0) AS was_inserted.
upsert_result(view, rec, now) ==
    [id |-> upsert_row(view, rec, now).id,
     was_inserted |-> upsert_outcome(view, rec) = "inserted"]

\* The pending rows of a transaction after it upserted rec.
RowsAfterUpsert(w, rec, now) ==
    {p \in txn[w].rows : p.fingerprint # rec.fingerprint}
    \cup {upsert_row(SleepDaysView(w), rec, now)}

\* A plausible slip: the digest also covers the path's source.
compute_request_hash_with_source(c) == Sha256(<<c.source, c.patient_id, c.data>>)

\* compute_request_hash(body.model_dump()): the digest of the canonical JSON
\* of {patient_id, data}, represented by that content.
compute_request_hash(c) == Sha256(<<c.patient_id, c.data>>)

\* The row atomic_claim_idempotency_key inserts; created_at and expires_at
\* are the server defaults now() and now() + 24 hours.
NewIdempotencyRow(key, source, request_hash, now) ==
    [key |-> key, source |-> source, request_hash |-> request_hash,
     status_code |-> None, response_body |-> None, locked_at |-> Some(now),
     created_at |-> now, expires_at |-> now + IDEMPOTENCY_TTL]

\* Plausible slips in the purge: it deletes the key's row whether or not it
\* has expired; it leaves a row that expires at this very instant.
ExpiredRows_all(key, now) == {r \in idempotency_keys : r.key = key}
ExpiredRows_strict(key, now) ==
    {r \in idempotency_keys : r.key = key /\ r.expires_at < now}

\* DELETE ... WHERE key = :key AND expires_at <= now()
ExpiredRows(key, now) ==
    {r \in idempotency_keys : r.key = key /\ r.expires_at <= now}

\* The committed rows for key that the transaction of w has not deleted.
IdemRowsSeen(w, key) ==
    {r \in idempotency_keys : r.key = key} \ txn[w].idem_del

\* SELECT ... WHERE key = :key AND expires_at > now()
LiveRows(w, key, now) ==
    {r \in IdemRowsSeen(w, key) : r.expires_at > now}

\* A plausible slip: no unique index on key, so an insert never waits for
\* another transaction's uncommitted row.
KeyLockedByOther_never(w, key) == FALSE

\* Another transaction holds an uncommitted insert or delete on the key, so
\* an insert of the key waits for it.
KeyLockedByOther(w, key) ==
    \E v \in Workers \ {w} :
        \E r \in txn[v].idem_ins \cup txn[v].idem_del : r.key = key

\* A plausible slip: the stored response is returned before the request
\* hash is compared.
claim_from_row_status_first(existing, request_hash) ==
    IF IsSome(existing.status_code)
    THEN [status |-> "completed", status_code |-> existing.status_code,
          response_body |-> existing.response_body]
    ELSE IF existing.request_hash # request_hash
    THEN [status |-> "conflict", status_code |-> None, response_body |-> None]
    ELSE [status |-> "in_flight", status_code |-> None, response_body |-> None]

\* What the claim answers from the live row it read.
claim_from_row(existing, request_hash) ==
    IF existing.request_hash # request_hash
    THEN [status |-> "conflict", status_code |-> None, response_body |-> None]
    ELSE IF IsSome(existing.status_code)
    THEN [status |-> "completed", status_code |-> existing.status_code,
          response_body |-> existing.response_body]
    ELSE [status |-> "in_flight", status_code |-> None, response_body |-> None]

ClaimResult(status) ==
    [status |-> status, status_code |-> None, response_body |-> None]

\* complete_idempotency_key's UPDATE ... WHERE key = :key applied to a row.
\* A plausible slip: the values clause leaves the lock marker set.
complete_row_keep_lock(r, status_code, response_body) ==
    [r EXCEPT !.status_code = Some(status_code),
              !.response_body = Some(response_body)]

\* complete_idempotency_key: the values the UPDATE ... WHERE key = :key
\* writes on a row it matches.
complete_row(r, status_code, response_body) ==
    [r EXCEPT !.status_code = Some(status_code),
              !.response_body = Some(response_body),
              !.locked_at = None]

\* ---------------------------------------------------------------- locals
\* pipe[w].violations keeps, per handled candidate, the list
\* validate_sleep_record returned for it.
NoClaim ==
    [result |-> ClaimResult("none"), now |-> 0, purged |-> {}, seen |-> {}]

NoPipe ==
    [raw_id |-> 0, cands |-> <<>>, idx |-> 0, results |-> <<>>, violations |-> <<>>,
     records_processed |-> 0, records_inserted |-> 0, records_updated |-> 0,
     records_quarantined |-> 0, wait_row |-> {}]

NoCall == [kind |-> "none"]
NoResponse == [status_code |-> 0, problem |-> "none", data |-> None]
NoReplay ==
    [todo |-> {}, replayed |-> 0, inserted |-> 0, updated |-> 0, quarantined |-> 0,
     expired |-> FALSE]

\* uuid4(): fresh ids; each worker draws from its own range.
WorkerBase(w) == w * 100
Uuid(w, n) == WorkerBase(w) + n

Init ==
    /\ clock = 1
    /\ idempotency_keys = {}
    /\ sleep_days = {}
    /\ raw_vendor_responses = <<>>
    /\ quarantine_records = <<>>
    /\ next_uuid = [w \in Workers |-> 0]
    /\ pc = [w \in Workers |-> "idle"]
    /\ call = [w \in Workers |-> NoCall]
    /\ txn = [w \in Workers |-> NoTxn]
    /\ claim = [w \in Workers |-> NoClaim]
    /\ pipe = [w \in Workers |-> NoPipe]
    /\ response = [w \in Workers |-> NoResponse]
    /\ replay = [w \in Workers |-> NoReplay]
    /\ history = [calls |-> 0, prev |-> None, first_pass |-> None]
    /\ reader = [pc |-> "idle"]
    /\ fetch = [pc |-> "idle"]
    /\ probe = [fn |-> "none"]

\* Time passes.
Tick ==
    /\ clock < MaxClock
    /\ clock' = clock + 1
    /\ UNCHANGED <<reader, fetch, probe>>
    /\ UNCHANGED <<idempotency_keys, sleep_days, raw_vendor_responses,
                   quarantine_records, next_uuid, pc, call, txn, claim, pipe,
                   response, replay, history>>

\* ------------------------------------------------- endpoint: ingest_sleep
\* The endpoint's answers to a request it turns away before the claim.
missing_key_response ==
    [status_code |-> 400, problem |-> "missing-idempotency-key", data |-> None]
unsupported_source_response ==
    [status_code |-> 422, problem |-> "unsupported-source", data |-> None]

\* A plausible slip: the source is checked ahead of the key.
request_rejection_source_first(key, source) ==
    IF source \notin ALLOWED_SOURCES THEN unsupported_source_response
    ELSE IF key = "" THEN missing_key_response
    ELSE NoResponse

\* The checks at the head of the handler: `if not idempotency_key`, then
\* `if source not in ("oura", "withings")`; NoResponse when both pass.
request_rejection(key, source) ==
    IF key = "" THEN missing_key_response
    ELSE IF source \notin ALLOWED_SOURCES THEN unsupported_source_response
    ELSE NoResponse

\* A POST /ingest/{source}/sleep request arrives.  The handler raises when
\* the key is missing or the source unsupported; otherwise it computes the
\* request hash and calls the claim, whose first statement opens the
\* session's transaction.  Workers are interchangeable, so they take
\* requests in the order of their numbers.
Receive(w, requests) ==
    /\ pc[w] = "idle"
    /\ \A v \in Workers : v < w => pc[v] # "idle"
    /\ \E rq \in requests :
           LET rejection == request_rejection(rq.key, rq.source)
           IN  /\ call' = [call EXCEPT ![w] =
                               [kind |-> "endpoint", key |-> rq.key,
                                source |-> rq.source, patient_id |-> rq.patient_id,
                                data |-> rq.data,
                                request_hash |-> compute_request_hash(rq)]]
               /\ IF rejection # NoResponse
                  THEN /\ response' = [response EXCEPT ![w] = rejection]
                       /\ pc' = [pc EXCEPT ![w] = "done"]
                       /\ UNCHANGED txn
                  ELSE /\ txn' = [txn EXCEPT ![w] = Begun(txn[w])]
                       /\ pc' = [pc EXCEPT ![w] = "claim_purge"]
                       /\ UNCHANGED response
    /\ UNCHANGED <<reader, fetch, probe>>
    /\ UNCHANGED <<clock, idempotency_keys, sleep_days, raw_vendor_responses,
                   quarantine_records, next_uuid, claim, pipe, replay, history>>

Arrive(w) == Receive(w, EndpointRequests)

\* The endpoint's answer to a claim that did not return "claimed".
conflict_response == [status_code |-> 409, problem |-> "idempotency-conflict", data |-> None]
in_flight_response == [status_code |-> 409, problem |-> "idempotency-in-flight", data |-> None]

\* A plausible slip: the stored body is replayed with status 200.
endpoint_answer_ok(result) ==
    IF result.status = "conflict" THEN conflict_response
    ELSE IF result.status = "in_flight" THEN in_flight_response
    ELSE [status_code |-> HTTP_OK, problem |-> "none", data |-> result.response_body]

\* A plausible slip: both refusals raise the same error.
endpoint_answer_one_problem(result) ==
    IF result.status \in {"conflict", "in_flight"} THEN conflict_response
    ELSE [status_code |-> Val(result.status_code), problem |-> "none",
          data |-> result.response_body]

endpoint_answer(result) ==
    IF result.status = "conflict" THEN conflict_response
    ELSE IF result.status = "in_flight" THEN in_flight_response
    ELSE [status_code |-> Val(result.status_code), problem |-> "none",
          data |-> result.response_body]

\* atomic_claim_idempotency_key, first statement: purge the expired row of
\* the key.  The DELETE waits while another transaction is deleting the row.
ClaimPurge(w) ==
    /\ pc[w] = "claim_purge"
    /\ LET expired == ExpiredRows(call[w].key, txn[w].now)
       IN  /\ \A v \in Workers \ {w} : txn[v].idem_del \cap expired = {}
           /\ txn' = [txn EXCEPT ![w].idem_del = expired]
           /\ claim' = [claim EXCEPT ![w] =
                           [NoClaim EXCEPT !.now = txn[w].now, !.purged = expired]]
    /\ pc' = [pc EXCEPT ![w] = "claim_insert"]
    /\ UNCHANGED <<reader, fetch, probe>>
    /\ UNCHANGED <<clock, idempotency_keys, sleep_days, raw_vendor_responses,
                   quarantine_records, next_uuid, call, pipe, response, replay,
                   history>>

\* INSERT ... ON CONFLICT (key) DO NOTHING: the row is inserted unless the
\* transaction sees a row of the key.  The insert waits while another
\* transaction holds an uncommitted insert or delete of the key.
InsertClaims(w) == IdemRowsSeen(w, call[w].key) = {}

\* The statement inserted one row: the claim returns "claimed".
Claimed(w) ==
    /\ txn' = [txn EXCEPT ![w].idem_ins =
                  {NewIdempotencyRow(call[w].key, call[w].source,
                                     call[w].request_hash, txn[w].now)}]
    /\ claim' = [claim EXCEPT ![w].result = ClaimResult("claimed")]
    /\ pc' = [pc EXCEPT ![w] = "claim_commit"]
    /\ UNCHANGED response

\* Second statement: the atomic insert.
ClaimInsert(w) ==
    /\ pc[w] = "claim_insert"
    /\ ~KeyLockedByOther(w, call[w].key)
    /\ IF InsertClaims(w)
       THEN Claimed(w)
       ELSE /\ pc' = [pc EXCEPT ![w] = "claim_select"]
            /\ UNCHANGED <<claim, response, txn>>
    /\ UNCHANGED <<reader, fetch, probe>>
    /\ UNCHANGED <<clock, idempotency_keys, sleep_days, raw_vendor_responses,
                   quarantine_records, next_uuid, call, pipe, replay, history>>

\* Third statement: read the live row of the key and answer from it; the
\* endpoint raises or replays and the session is closed.
ClaimSelect(w) ==
    /\ pc[w] = "claim_select"
    /\ LET live == LiveRows(w, call[w].key, txn[w].now)
       IN  IF live = {}
           THEN /\ pc' = [pc EXCEPT ![w] = "claim_retry"]
                /\ UNCHANGED <<claim, response, txn>>
           ELSE LET existing == CHOOSE r \in live : TRUE
                    result == claim_from_row(existing, call[w].request_hash)
                IN  /\ claim' = [claim EXCEPT ![w].result = result,
                                               ![w].seen = {existing}]
                    /\ response' = [response EXCEPT ![w] = endpoint_answer(result)]
                    /\ txn' = [txn EXCEPT ![w] = NoTxn]
                    /\ pc' = [pc EXCEPT ![w] = "done"]
    /\ UNCHANGED <<reader, fetch, probe>>
    /\ UNCHANGED <<clock, idempotency_keys, sleep_days, raw_vendor_responses,
                   quarantine_records, next_uuid, call, pipe, replay, history>>

\* The row vanished between insert and read: the insert is retried once;
\* if it inserts nothing again the claim answers in_flight.
ClaimRetry(w) ==
    /\ pc[w] = "claim_retry"
    /\ ~KeyLockedByOther(w, call[w].key)
    /\ IF InsertClaims(w)
       THEN Claimed(w)
       ELSE /\ claim' = [claim EXCEPT ![w].result = ClaimResult("in_flight")]
            /\ response' = [response EXCEPT ![w] = in_flight_response]
            /\ txn' = [txn EXCEPT ![w] = NoTxn]
            /\ pc' = [pc EXCEPT ![w] = "done"]
    /\ UNCHANGED <<reader, fetch, probe>>
    /\ UNCHANGED <<clock, idempotency_keys, sleep_days, raw_vendor_responses,
                   quarantine_records, next_uuid, call, pipe, replay, history>>

\* The claim returned "claimed": the endpoint commits the claim.
ClaimCommit(w) ==
    /\ pc[w] = "claim_commit"
    /\ idempotency_keys' = CommittedIdem(w)
    /\ txn' = [txn EXCEPT ![w] = NoTxn]
    /\ pc' = [pc EXCEPT ![w] = "store_raw"]
    /\ UNCHANGED <<reader, fetch, probe>>
    /\ UNCHANGED <<clock, sleep_days, raw_vendor_responses, quarantine_records,
                   next_uuid, call, claim, pipe, response, replay, history>>

\* ------------------------------------------- pipeline: ingest_sleep_data
QuarantineRow(c, stage, reason, details, raw_payload, fingerprint, effective_date, raw_id) ==
    [patient_id |-> c.patient_id, source |-> c.source, pipeline_stage |-> stage,
     quarantine_reason |-> reason, quarantine_details |-> details,
     raw_payload |-> raw_payload, fingerprint |-> fingerprint,
     effective_date |-> effective_date, raw_response_id |-> raw_id]

RecordResult(sleep_day_id, status) == [sleep_day_id |-> sleep_day_id, status |-> status]

\* Step 1: archive the raw payload (bronze).  batch_id and the raw row's id
\* are fresh uuids.
StoreRaw(w) ==
    /\ pc[w] = "store_raw"
    /\ LET t == Begun(txn[w])
           c == call[w]
           raw_id == Uuid(w, next_uuid[w] + 1)
           raw == [id |-> raw_id, patient_id |-> c.patient_id, source |-> c.source,
                   response_body |-> c.data, http_status |-> HTTP_OK,
                   fetched_at |-> t.now, batch_id |-> Uuid(w, next_uuid[w])]
       IN  /\ txn' = [txn EXCEPT ![w] = [t EXCEPT !.raws = Append(@, raw)]]
           /\ pipe' = [pipe EXCEPT ![w] = [NoPipe EXCEPT !.raw_id = raw_id]]
           /\ next_uuid' = [next_uuid EXCEPT ![w] = @ + 2]
    /\ pc' = [pc EXCEPT ![w] = "parse"]
    /\ UNCHANGED <<reader, fetch, probe>>
    /\ UNCHANGED <<clock, idempotency_keys, sleep_days, raw_vendor_responses,
                   quarantine_records, call, claim, response, replay, history>>

\* Step 2: the adapter maps the payload to candidates; each mapped SleepDay
\* gets a fresh uuid.  When parse raises, no candidate is kept.
AdapterParse(w) ==
    /\ pc[w] = "parse"
    /\ LET c == call[w]
           raises == ParseRaises(c.source, c.data)
           cands == IF raises THEN <<>>
                    ELSE Parse(c.source, c.data, c.patient_id, clock,
                               Uuid(w, next_uuid[w]))
       IN  /\ pipe' = [pipe EXCEPT ![w].cands = cands, ![w].idx = 1]
           /\ next_uuid' = [next_uuid EXCEPT ![w] = @ + Len(cands)]
           /\ pc' = [pc EXCEPT ![w] =
                        IF raises THEN "adapter_quarantine"
                        ELSE IF Len(cands) = 0 THEN "commit" ELSE "candidate"]
    /\ UNCHANGED <<reader, fetch, probe>>
    /\ UNCHANGED <<clock, idempotency_keys, sleep_days, raw_vendor_responses,
                   quarantine_records, call, txn, claim, response, replay, history>>

\* A plausible slip: the parse failure is logged and the batch dropped
\* without a quarantine record.
AdapterQuarantine_skipped(w) ==
    /\ pc[w] = "adapter_quarantine"
    /\ pc' = [pc EXCEPT ![w] = "commit"]
    /\ UNCHANGED <<reader, fetch, probe>>
    /\ UNCHANGED <<clock, idempotency_keys, sleep_days, raw_vendor_responses,
                   quarantine_records, next_uuid, call, txn, claim, pipe, response,
                   replay, history>>

\* adapter.parse raised: one quarantine record for the whole payload.
AdapterQuarantine(w) ==
    /\ pc[w] = "adapter_quarantine"
    /\ txn' = [txn EXCEPT ![w].quars =
                  Append(@, QuarantineRow(call[w], "adapter", "adapter_parse_error",
                                          <<>>, call[w].data, None, None,
                                          pipe[w].raw_id))]
    /\ pipe' = [pipe EXCEPT ![w].records_quarantined = 1]
    /\ pc' = [pc EXCEPT ![w] = "commit"]
    /\ UNCHANGED <<reader, fetch, probe>>
    /\ UNCHANGED <<clock, idempotency_keys, sleep_days, raw_vendor_responses,
                   quarantine_records, next_uuid, call, claim, response, replay,
                   history>>

\* pc after the candidate at pipe[w].idx has been handled.
AfterCandidate(w) ==
    IF pipe[w].idx < Len(pipe[w].cands) THEN "candidate" ELSE "commit"

\* The candidate failed validation: quarantine it with every violation.
QuarantineInvalid(w, sleep_day, errors) ==
    /\ txn' = [txn EXCEPT ![w] =
                  [Begun(txn[w]) EXCEPT !.quars =
                      Append(@, QuarantineRow(call[w], "validation", errors[1].reason,
                                              errors, sleep_day.raw_payload,
                                              Some(sleep_day.fingerprint),
                                              Some(sleep_day.effective_date),
                                              pipe[w].raw_id))]]
    /\ pipe' = [pipe EXCEPT ![w].records_quarantined = @ + 1,
                            ![w].results = Append(@, RecordResult(None, "quarantined")),
                            ![w].violations = Append(@, errors),
                            ![w].idx = @ + 1]

\* A plausible slip: the failed upsert is quarantined without ending the
\* transaction it ran in, which keeps the earlier writes.
AfterIntegrityError_keep(w) == Begun(txn[w])

\* `except IntegrityError: await session.rollback()`: the transaction is
\* rolled back whole, with every write it made since the last commit; the
\* quarantine insert that follows begins a new one.
AfterIntegrityError(w) == Begun(NoTxn)

\* The upsert raised IntegrityError: roll back, then quarantine the candidate.
QuarantineCollision(w, sleep_day) ==
    /\ txn' = [txn EXCEPT ![w] =
                  [AfterIntegrityError(w) EXCEPT !.quars =
                      Append(@, QuarantineRow(call[w], "upsert",
                                              "source_record_id_reused_across_dates",
                                              <<>>, sleep_day.raw_payload,
                                              Some(sleep_day.fingerprint),
                                              Some(sleep_day.effective_date),
                                              pipe[w].raw_id))]]
    /\ pipe' = [pipe EXCEPT ![w].records_quarantined = @ + 1,
                            ![w].results = Append(@, RecordResult(None, "quarantined")),
                            ![w].violations = Append(@, <<>>),
                            ![w].idx = @ + 1]

\* A plausible slip: every upsert that went through is reported created.
outcome_status_created(db_result) == "created"

\* The pipeline's classification of an upsert from its was_inserted flag.
outcome_status(db_result) ==
    IF db_result.was_inserted THEN "created" ELSE "deduplicated"

\* The upsert went through: count it and record its outcome.
RecordUpsert(w, sleep_day) ==
    LET t == Begun(txn[w])
        db_result == upsert_result(SleepDaysView(w), sleep_day, t.now)
    IN  /\ txn' = [txn EXCEPT ![w] =
                      [t EXCEPT !.rows = RowsAfterUpsert(w, sleep_day, t.now)]]
        /\ pipe' = [pipe EXCEPT
                       ![w].records_inserted = @ + (IF db_result.was_inserted THEN 1 ELSE 0),
                       ![w].records_updated = @ + (IF db_result.was_inserted THEN 0 ELSE 1),
                       ![w].records_processed = @ + 1,
                       ![w].results =
                           Append(@, RecordResult(Some(db_result.id),
                                                  outcome_status(db_result))),
                       ![w].violations = Append(@, <<>>),
                       ![w].idx = @ + 1]

\* Steps 3 and 4 for the next candidate, in input order: validate it, then
\* quarantine it or upsert it.  The upsert waits while another transaction
\* holds an uncommitted row with its fingerprint or native id.
ProcessCandidate(w) ==
    /\ pc[w] = "candidate"
    /\ LET sleep_day == pipe[w].cands[pipe[w].idx]
           errors == validate_sleep_record(model_dump(sleep_day), clock)
       IN  IF errors # <<>>
           THEN QuarantineInvalid(w, sleep_day, errors)
           ELSE /\ ~RowLockedByOther(w, sleep_day)
                /\ IF upsert_outcome(SleepDaysView(w), sleep_day) = "integrity_error"
                   THEN QuarantineCollision(w, sleep_day)
                   ELSE RecordUpsert(w, sleep_day)
    /\ pc' = [pc EXCEPT ![w] = AfterCandidate(w)]
    /\ UNCHANGED <<reader, fetch, probe>>
    /\ UNCHANGED <<clock, idempotency_keys, sleep_days, raw_vendor_responses,
                   quarantine_records, next_uuid, call, claim, response, replay,
                   history>>

\* The endpoint's response_data: the single record's result when the batch
\* has exactly one, else the list with the batch counts.
response_data(p) ==
    IF Len(p.results) = 1 THEN p.results[1]
    ELSE [results |-> p.results,
          records_processed |-> p.records_processed,
          records_inserted |-> p.records_inserted,
          records_updated |-> p.records_updated,
          records_quarantined |-> p.records_quarantined]

\* A plausible slip: 201 whenever a record was upserted, created or not.
response_status_processed(p) ==
    IF p.records_processed > 0 THEN HTTP_CREATED ELSE HTTP_OK

\* 201 if the batch has inserts, else 200.
response_status(p) == IF p.records_inserted > 0 THEN HTTP_CREATED ELSE HTTP_OK

\* raw rows matching replay_from_raw's query.
ReplayMatches(c) ==
    {i \in 1..Len(raw_vendor_responses) :
        LET raw == raw_vendor_responses[i]
        IN  /\ raw.source = c.source
            /\ raw.patient_id = c.patient_id
            /\ (IsSome(c.start_date) => raw.fetched_at >= Val(c.start_date))
            /\ (IsSome(c.end_date) => raw.fetched_at <= Val(c.end_date))}

\* The last statement of ingest_sleep_data: commit, then return the result
\* to the caller: the endpoint builds its response, replay adds the counts
\* to its totals, a direct caller gets the result.  When an upsert of the
\* batch raised IntegrityError (the one outcome quarantined without a
\* violation list), the call rolled the session back, and session.rollback()
\* expires every object the session has loaded: the raw rows of replay.
PipelineCommit(w) ==
    /\ pc[w] = "commit"
    /\ idempotency_keys' = CommittedIdem(w)
    /\ sleep_days' = CommittedSleepDays(w)
    /\ raw_vendor_responses' = CommittedRaws(w)
    /\ quarantine_records' = CommittedQuars(w)
    /\ txn' = [txn EXCEPT ![w] = NoTxn]
    /\ IF call[w].kind = "endpoint"
       THEN /\ response' = [response EXCEPT ![w] =
                               [status_code |-> response_status(pipe[w]),
                                problem |-> "none",
                                data |-> Some(response_data(pipe[w]))]]
            /\ pc' = [pc EXCEPT ![w] = "complete"]
            /\ UNCHANGED replay
       ELSE IF call[w].kind = "replay"
       THEN /\ replay' = [replay EXCEPT
                             ![w].replayed = @ + 1,
                             ![w].inserted = @ + pipe[w].records_inserted,
                             ![w].updated = @ + pipe[w].records_updated,
                             ![w].quarantined = @ + pipe[w].records_quarantined,
                             ![w].expired =
                                 @ \/ \E i \in 1..Len(pipe[w].results) :
                                          /\ pipe[w].results[i].status = "quarantined"
                                          /\ pipe[w].violations[i] = <<>>]
            /\ pc' = [pc EXCEPT ![w] = "replay_next"]
            /\ UNCHANGED response
       ELSE /\ pc' = [pc EXCEPT ![w] = "returned"]
            /\ UNCHANGED <<response, replay>>
    /\ UNCHANGED <<reader, fetch, probe>>
    /\ UNCHANGED <<clock, next_uuid, call, claim, pipe, history>>

\* A plausible slip: the UPDATE also requires the row to be the one the
\* caller's own claim inserted.
Complete_own_row(w) ==
    /\ pc[w] = "complete"
    /\ LET target == {r \in idempotency_keys :
                         r.key = call[w].key /\ r.created_at = claim[w].now}
           held == \E v \in Workers \ {w} : txn[v].idem_del \cap target # {}
       IN  IF held
           THEN /\ pipe' = [pipe EXCEPT ![w].wait_row = target]
                /\ pc' = [pc EXCEPT ![w] = "complete_wait"]
                /\ UNCHANGED idempotency_keys
           ELSE /\ idempotency_keys' =
                       (idempotency_keys \ target)
                       \cup {complete_row(r, response[w].status_code,
                                          Val(response[w].data)) : r \in target}
                /\ pc' = [pc EXCEPT ![w] = "done"]
                /\ UNCHANGED pipe
    /\ UNCHANGED <<reader, fetch, probe>>
    /\ UNCHANGED <<clock, sleep_days, raw_vendor_responses, quarantine_records,
                   next_uuid, call, txn, claim, response, replay, history>>

\* complete_idempotency_key and the commit after it: every row of the key
\* gets the status code and body, and its lock is cleared.  The UPDATE
\* waits while another transaction is deleting the row.
Complete(w) ==
    /\ pc[w] = "complete"
    /\ LET target == {r \in idempotency_keys : r.key = call[w].key}
           held == \E v \in Workers \ {w} : txn[v].idem_del \cap target # {}
       IN  IF held
           THEN /\ pipe' = [pipe EXCEPT ![w].wait_row = target]
                /\ pc' = [pc EXCEPT ![w] = "complete_wait"]
                /\ UNCHANGED idempotency_keys
           ELSE /\ idempotency_keys' =
                       (idempotency_keys \ target)
                       \cup {complete_row(r, response[w].status_code,
                                          Val(response[w].data)) : r \in target}
                /\ pc' = [pc EXCEPT ![w] = "done"]
                /\ UNCHANGED pipe
    /\ UNCHANGED <<reader, fetch, probe>>
    /\ UNCHANGED <<clock, sleep_days, raw_vendor_responses, quarantine_records,
                   next_uuid, call, txn, claim, response, replay, history>>

\* The transaction the UPDATE waited for has ended: the UPDATE goes on with
\* the row it had found, if that row is still there (a row the other
\* transaction inserted meanwhile is not in the statement's snapshot).
CompleteWait(w) ==
    /\ pc[w] = "complete_wait"
    /\ \A v \in Workers \ {w} : txn[v].idem_del \cap pipe[w].wait_row = {}
    /\ LET target == pipe[w].wait_row \cap idempotency_keys
       IN  idempotency_keys' =
               (idempotency_keys \ target)
               \cup {complete_row(r, response[w].status_code,
                                  Val(response[w].data)) : r \in target}
    /\ pipe' = [pipe EXCEPT ![w].wait_row = {}]
    /\ pc' = [pc EXCEPT ![w] = "done"]
    /\ UNCHANGED <<reader, fetch, probe>>
    /\ UNCHANGED <<clock, sleep_days, raw_vendor_responses, quarantine_records,
                   next_uuid, call, txn, claim, response, replay, history>>

\* A plausible slip: the failing handler releases its key by deleting the
\* key's row.
PipelineAbort_releases(w) ==
    /\ call[w].kind = "endpoint"
    /\ pc[w] \in {"store_raw", "parse", "adapter_quarantine", "candidate", "commit"}
    /\ txn' = [txn EXCEPT ![w] = NoTxn]
    /\ idempotency_keys' = {r \in idempotency_keys : r.key # call[w].key}
    /\ response' = [response EXCEPT ![w] =
                       [status_code |-> 500, problem |-> "internal-server-error",
                        data |-> None]]
    /\ pc' = [pc EXCEPT ![w] = "failed"]
    /\ UNCHANGED <<reader, fetch, probe>>
    /\ UNCHANGED <<clock, sleep_days, raw_vendor_responses,
                   quarantine_records, next_uuid, call, claim, pipe, replay, history>>

\* ingest_sleep_data raises out of the endpoint (a statement fails with an
\* error other than IntegrityError: the connection is lost, a statement
\* times out): the handler never reaches complete_idempotency_key, the
\* session is closed with its open transaction rolled back, and the client
\* gets a server error.
PipelineAbort(w) ==
    /\ call[w].kind = "endpoint"
    /\ pc[w] \in {"store_raw", "parse", "adapter_quarantine", "candidate", "commit"}
    /\ txn' = [txn EXCEPT ![w] = NoTxn]
    /\ response' = [response EXCEPT ![w] =
                       [status_code |-> 500, problem |-> "internal-server-error",
                        data |-> None]]
    /\ pc' = [pc EXCEPT ![w] = "failed"]
    /\ UNCHANGED <<reader, fetch, probe>>
    /\ UNCHANGED <<clock, idempotency_keys, sleep_days, raw_vendor_responses,
                   quarantine_records, next_uuid, call, claim, pipe, replay, history>>

\* ------------------------------------------------ direct calls and replay
\* The inputs of the sequential caller.
SeqInputs ==
    {[source |-> "oura", patient_id |-> "pA", data |-> PayA],
     [source |-> "oura", patient_id |-> "pA", data |-> PayA2],
     [source |-> "oura", patient_id |-> "pA", data |-> PayFuture],
     [source |-> "oura", patient_id |-> "pA", data |-> PayReuse],
     [source |-> "oura", patient_id |-> "pA", data |-> PayNegative]}

\* Oura payloads of two entries: a valid night with an entry whose duration
\* is negative, with one that has no id, with one that has no day and with
\* a nap that has neither; and a night that fails validation with a valid
\* one.
BatchInputs ==
    {[source |-> "oura", patient_id |-> "pA", data |-> Payload("oura", es)] :
        es \in {<<EntryA, EntryNegative>>,
                <<OuraEntry(None, Some(1), Some(27000), None, None, None, None), EntryA>>,
                <<EntryA, OuraEntry(Some(<<"g">>), None, Some(27000), None, None, None, None)>>,
                <<[OuraEntry(None, None, Some(1200), None, None, None, None)
                      EXCEPT !.type = "late_nap"], EntryA>>,
                <<EntryBadOrder, EntryA>>}}

\* The arguments replay is called with.
ReplayInputs ==
    {[source |-> "oura", patient_id |-> "pA", start_date |-> None, end_date |-> None],
     [source |-> "oura", patient_id |-> "pA", start_date |-> Some(1), end_date |-> Some(1)]}

\* A caller invokes ingest_sleep_data(session, source, raw_payload, patient_id).
IngestFrom(w, inputs) ==
    /\ pc[w] = "idle"
    /\ history.calls < MaxCalls
    /\ \E in \in inputs :
           call' = [call EXCEPT ![w] =
                       [kind |-> "ingest", source |-> in.source,
                        patient_id |-> in.patient_id, data |-> in.data]]
    /\ pc' = [pc EXCEPT ![w] = "store_raw"]
    /\ history' = [history EXCEPT !.calls = @ + 1]
    /\ UNCHANGED <<reader, fetch, probe>>
    /\ UNCHANGED <<clock, idempotency_keys, sleep_days, raw_vendor_responses,
                   quarantine_records, next_uuid, txn, claim, pipe, response, replay>>

IngestCall(w) == IngestFrom(w, SeqInputs)

\* A caller invokes replay_from_raw: the query reads the matching raw rows.
ReplayCall(w) ==
    /\ pc[w] = "idle"
    /\ history.calls < MaxCalls
    /\ \E in \in ReplayInputs :
           LET c == [kind |-> "replay", source |-> in.source,
                     patient_id |-> in.patient_id,
                     start_date |-> in.start_date, end_date |-> in.end_date,
                     data |-> Payload("none", <<>>)]
           IN  /\ call' = [call EXCEPT ![w] = c]
               /\ replay' = [replay EXCEPT ![w] =
                                [NoReplay EXCEPT !.todo = ReplayMatches(c)]]
    /\ txn' = [txn EXCEPT ![w] = Begun(txn[w])]
    /\ pipe' = [pipe EXCEPT ![w] = NoPipe]
    /\ pc' = [pc EXCEPT ![w] = "replay_next"]
    /\ history' = [history EXCEPT !.calls = @ + 1]
    /\ UNCHANGED <<reader, fetch, probe>>
    /\ UNCHANGED <<clock, idempotency_keys, sleep_days, raw_vendor_responses,
                   quarantine_records, next_uuid, claim, response>>

\* The loop of replay_from_raw: ingest the next raw row of the result, in
\* the order the unordered query returned them, or return the totals.  The
\* rows are objects of the session: reading raw.response_body of a row the
\* session has expired needs a reload, which the async session cannot do
\* from an attribute access, so the read raises and replay_from_raw ends
\* with that error.
ReplayNext(w) ==
    /\ pc[w] = "replay_next"
    /\ IF replay[w].todo = {}
       THEN /\ pc' = [pc EXCEPT ![w] = "returned"]
            /\ txn' = [txn EXCEPT ![w] = NoTxn]
            /\ UNCHANGED <<call, replay>>
       ELSE IF replay[w].expired
       THEN /\ pc' = [pc EXCEPT ![w] = "failed"]
            /\ txn' = [txn EXCEPT ![w] = NoTxn]
            /\ UNCHANGED <<call, replay>>
       ELSE \E i \in replay[w].todo :
               /\ call' = [call EXCEPT ![w].data = raw_vendor_responses[i].response_body]
               /\ replay' = [replay EXCEPT ![w].todo = @ \ {i}]
               /\ pc' = [pc EXCEPT ![w] = "store_raw"]
               /\ UNCHANGED txn
    /\ UNCHANGED <<reader, fetch, probe>>
    /\ UNCHANGED <<clock, idempotency_keys, sleep_days, raw_vendor_responses,
                   quarantine_records, next_uuid, claim, pipe, response, history>>

\* What a later replay pass must leave as it is: the canonical rows by
\* fingerprint with their measurement fields.
Measurements(r) ==
    [fingerprint |-> r.fingerprint,
     total_sleep_minutes |-> r.total_sleep_minutes,
     deep_sleep_minutes |-> r.deep_sleep_minutes,
     light_sleep_minutes |-> r.light_sleep_minutes,
     rem_sleep_minutes |-> r.rem_sleep_minutes,
     awake_minutes |-> r.awake_minutes,
     sleep_onset |-> r.sleep_onset,
     sleep_offset |-> r.sleep_offset,
     sleep_efficiency |-> r.sleep_efficiency]

StoreContent == {Measurements(r) : r \in sleep_days}

ReplayArgs(c) ==
    [source |-> c.source, patient_id |-> c.patient_id,
     start_date |-> c.start_date, end_date |-> c.end_date]

\* The fingerprints of a call's candidates and the per-record
\* classifications of its result, in order.
Fingerprints(cands) == {cands[i].fingerprint : i \in 1..Len(cands)}
Outcomes(results) == [i \in 1..Len(results) |-> results[i].status]

\* The call has returned to the sequential caller, who notes what it saw:
\* the last ingest call and its result, and the store content after the
\* first of a run of replay passes with the same arguments.
Return(w) ==
    /\ pc[w] = "returned"
    /\ pc' = [pc EXCEPT ![w] = "idle"]
    /\ history' =
           IF call[w].kind = "ingest"
           THEN [history EXCEPT
                    !.prev = Some([source |-> call[w].source,
                                   patient_id |-> call[w].patient_id,
                                   data |-> call[w].data,
                                   fingerprints |-> Fingerprints(pipe[w].cands),
                                   outcomes |-> Outcomes(pipe[w].results)]),
                    !.first_pass = None]
           ELSE [history EXCEPT
                    !.prev = None,
                    !.first_pass =
                        IF IsSome(@) /\ Val(@).args = ReplayArgs(call[w]) THEN @
                        ELSE Some([args |-> ReplayArgs(call[w]),
                                   content |-> StoreContent])]
    /\ call' = [call EXCEPT ![w] = NoCall]
    /\ pipe' = [pipe EXCEPT ![w] = NoPipe]
    /\ replay' = [replay EXCEPT ![w] = NoReplay]
    /\ UNCHANGED <<reader, fetch, probe>>
    /\ UNCHANGED <<clock, idempotency_keys, sleep_days, raw_vendor_responses,
                   quarantine_records, next_uuid, txn, claim, response>>

\* ------------------------------------------- pure functions, applied
\* The arguments compute_fingerprint is applied to: both sources, native ids
\* with and without ':' (one of them ending like a date), several dates.
FingerprintArgs ==
    [source : ALLOWED_SOURCES,
     source_record_id : {<<"a">>, <<"b">>, <<"a", ":">>, <<":", "a">>, <<"a", ":", "b">>,
                         <<"a", ":">> \o IsoFormat(1), <<>>},
     effective_date : {1, 2, 11}]

\* compute_fingerprint applied to two argument triples.
ApplyFingerprint ==
    /\ probe.fn = "none"
    /\ \E a \in FingerprintArgs, b \in FingerprintArgs :
           probe' = [fn |-> "compute_fingerprint", a |-> a, b |-> b,
                     out_a |-> compute_fingerprint(a.source, a.source_record_id,
                                                   a.effective_date),
                     out_b |-> compute_fingerprint(b.source, b.source_record_id,
                                                   b.effective_date)]
    /\ UNCHANGED <<clock, idempotency_keys, sleep_days, raw_vendor_responses,
                   quarantine_records, next_uuid, pc, call, txn, claim, pipe,
                   response, replay, history, reader, fetch>>

\* validate_sleep_record applied to one record, today being the clock: the
\* dump of a valid night with some fields replaced (totals and stage
\* minutes around the 105% bound, dates, efficiencies, aware and naive
\* bedtimes in and out of order, a known and an unknown source).
ApplyValidate ==
    /\ probe.fn = "none"
    /\ \E total \in {None, Some(0), Some(100), Some(1000), Some(1500), Some(0 - 1)},
          deep \in {None, Some(0), Some(100), Some(105), Some(106), Some(1050),
                    Some(1051), Some(0 - 5)},
          light \in {None, Some(5)},
          date \in {None, Some(1), Some(3)},
          efficiency \in {None, Some(8800), Some(10001)},
          window \in {<<None, None>>, <<Aware(1), Aware(2)>>, <<Aware(2), Aware(1)>>,
                      <<Aware(2), Aware(2)>>, <<Naive(2), Aware(1)>>,
                      <<Aware(2), Naive(1)>>, <<Naive(2), Naive(1)>>, <<Aware(1), None>>},
          source \in {"oura", "fitbit"} :
           LET record == [model_dump(OuraSleepDay(EntryA, "pA", 1, 0)) EXCEPT
                             !.total_sleep_minutes = total,
                             !.deep_sleep_minutes = deep,
                             !.light_sleep_minutes = light,
                             !.effective_date = date,
                             !.sleep_efficiency = efficiency,
                             !.sleep_onset = window[1],
                             !.sleep_offset = window[2],
                             !.source = source]
           IN  probe' = [fn |-> "validate_sleep_record", record |-> record,
                         today |-> clock,
                         out |-> validate_sleep_record(record, clock)]
    /\ UNCHANGED <<clock, idempotency_keys, sleep_days, raw_vendor_responses,
                   quarantine_records, next_uuid, pc, call, txn, claim, pipe,
                   response, replay, history, reader, fetch>>

\* OuraMapper.parse applied to a payload of one entry: durations around the
\* minute boundaries and the night of the adapter tests.
OuraSeconds == {None, Some(0), Some(59), Some(60), Some(119), Some(26010), Some(5160)}

ApplyOuraMapper ==
    /\ probe.fn = "none"
    /\ \E total \in OuraSeconds, deep \in OuraSeconds,
          efficiency \in {None, Some(0), Some(88), Some(100)},
          rest \in {<<None, None, None>>, <<Some(15600), Some(5400), Some(2340)>>} :
           LET entry == [OuraEntry(Some(<<"a">>), Some(1), total, deep, efficiency,
                                   Aware(1), Aware(2))
                            EXCEPT !.light_sleep_duration = rest[1],
                                   !.rem_sleep_duration = rest[2],
                                   !.awake_time = rest[3]]
           IN  /\ ~ParseRaises("oura", Payload("oura", <<entry>>))
               /\ probe' = [fn |-> "OuraMapper.parse", entry |-> entry,
                             out |-> Parse("oura", Payload("oura", <<entry>>),
                                           "pA", clock, 0)]
    /\ UNCHANGED <<clock, idempotency_keys, sleep_days, raw_vendor_responses,
                   quarantine_records, next_uuid, pc, call, txn, claim, pipe,
                   response, replay, history, reader, fetch>>

\* WithingsMapper.parse applied to a payload of one entry: each latency
\* field absent, zero or positive, under its specific and its legacy name.
WithingsSeconds == {None, Some(0), Some(300), Some(600)}

ApplyWithingsMapper ==
    /\ probe.fn = "none"
    /\ \E sleep_latency \in WithingsSeconds, durationtosleep \in WithingsSeconds,
          wakeup_latency \in WithingsSeconds, durationtowakeup \in WithingsSeconds :
           LET entry == [EntryW EXCEPT !.sleep_latency = sleep_latency,
                                       !.durationtosleep = durationtosleep,
                                       !.wakeup_latency = wakeup_latency,
                                       !.durationtowakeup = durationtowakeup]
           IN  /\ ~ParseRaises("withings", Payload("withings", <<entry>>))
               /\ probe' = [fn |-> "WithingsMapper.parse", entry |-> entry,
                             out |-> Parse("withings", Payload("withings", <<entry>>),
                                           "pA", clock, 0)]
    /\ UNCHANGED <<clock, idempotency_keys, sleep_days, raw_vendor_responses,
                   quarantine_records, next_uuid, pc, call, txn, claim, pipe,
                   response, replay, history, reader, fetch>>

\* ----------------------------------------- reads: timeline and provenance
\* The number a decimal numeral denotes: UUID(text) of an id, and the day of
\* date.fromisoformat(text).
RECURSIVE ParseNat(_)
ParseNat(text) ==
    LET value(ch) == CHOOSE d \in 0..9 : DigitChar[d + 1] = ch
    IN  IF Len(text) = 1 THEN value(text[1])
        ELSE ParseNat(SubSeq(text, 1, Len(text) - 1)) * 10 + value(text[Len(text)])

\* The cursor of a page: the JSON object {"date": ..., "id": ...} of its last
\* row (base64 is a bijection on it), and the pair the next call decodes:
\* the day number after the year-month prefix of the date, and the id.
encode_cursor(last) == [date |-> IsoFormat(last.effective_date), id |-> StrNat(last.id)]
decode_cursor(cursor) ==
    [date |-> ParseNat(SubSeq(cursor.date, Len(cursor.date) - 1, Len(cursor.date))),
     id |-> ParseNat(cursor.id)]

\* A plausible slip: the keyset predicate compares the date only.
after_cursor_date_only(row, c, descending) ==
    IF descending THEN row.effective_date < c.date ELSE row.effective_date > c.date

\* The keyset predicate: the rows strictly after the cursor in the
\* direction of the traversal.
after_cursor(row, c, descending) ==
    IF descending
    THEN \/ row.effective_date < c.date
         \/ row.effective_date = c.date /\ row.id < c.id
    ELSE \/ row.effective_date > c.date
         \/ row.effective_date = c.date /\ row.id > c.id

\* ORDER BY effective_date, id (both descending or both ascending).
RECURSIVE OrderBy(_, _)
OrderBy(rows, descending) ==
    IF rows = {} THEN <<>>
    ELSE LET before(r1, r2) ==
                 IF descending
                 THEN \/ r1.effective_date > r2.effective_date
                      \/ r1.effective_date = r2.effective_date /\ r1.id > r2.id
                 ELSE \/ r1.effective_date < r2.effective_date
                      \/ r1.effective_date = r2.effective_date /\ r1.id < r2.id
             first == CHOOSE r \in rows : \A o \in rows \ {r} : before(r, o)
         IN  <<first>> \o OrderBy(rows \ {first}, descending)

\* A plausible slip: the query fetches limit rows, not one more.
fetch_limit_exact(limit) == limit

\* query.limit(limit + 1)
fetch_limit(limit) == limit + 1

\* The WHERE clause of get_timeline / get_provenance without the cursor.
Selected(rows, args) ==
    {r \in rows :
        /\ r.patient_id = args.patient_id
        /\ IsSome(args.start) => r.effective_date >= Val(args.start)
        /\ IsSome(args.end) => r.effective_date < Val(args.end)
        /\ (args.kind = "provenance" /\ IsSome(args.source)) => r.source = Val(args.source)}

\* What a page shows of a row: the identity fields common to a timeline
\* item and a provenance item.
page_item(r) ==
    [id |-> r.id, patient_id |-> r.patient_id, source |-> r.source,
     effective_date |-> r.effective_date]

\* get_timeline / get_provenance with the endpoint's pagination block: the
\* rows after the cursor in order, one more than the limit fetched, the
\* surplus row dropped, the cursor built from the last row kept.
get_page(rows, args, cursor) ==
    LET selected == Selected(rows, args)
        after == IF IsNone(cursor) THEN selected
                 ELSE {r \in selected :
                          after_cursor(r, decode_cursor(Val(cursor)), args.descending)}
        ordered == OrderBy(after, args.descending)
        fetched == SubSeq(ordered, 1,
                          IF Len(ordered) < fetch_limit(args.limit) THEN Len(ordered)
                          ELSE fetch_limit(args.limit))
        has_more == Len(fetched) > args.limit
        kept == IF has_more THEN SubSeq(fetched, 1, args.limit) ELSE fetched
        next_cursor == IF has_more /\ kept # <<>>
                       THEN Some(encode_cursor(kept[Len(kept)])) ELSE None
    IN  [rows |-> [i \in 1..Len(kept) |-> page_item(kept[i])],
         next_cursor |-> next_cursor,
         has_more |-> IsSome(next_cursor)]

\* The nights ingest calls store while a client reads: two vendor-a nights
\* of patient pA on two dates, one of them re-sent with other measurements,
\* a vendor-b night of pA, and a night of another patient.
PageWrites ==
    {[source |-> "oura", patient_id |-> "pA", entry |-> EntryA],
     [source |-> "oura", patient_id |-> "pA", entry |-> EntryA2],
     [source |-> "oura", patient_id |-> "pA",
      entry |-> OuraEntry(Some(<<"d">>), Some(2), Some(27000), None, None, None, None)],
     [source |-> "withings", patient_id |-> "pA", entry |-> EntryW],
     [source |-> "oura", patient_id |-> "pB",
      entry |-> OuraEntry(Some(<<"f">>), Some(1), Some(27000), None, None, None, None)]}

\* The calls a client starts a traversal with.
TraversalArgs ==
    {[kind |-> "timeline", patient_id |-> "pA", start |-> range[1], end |-> range[2],
      source |-> None, limit |-> limit, descending |-> descending] :
        range \in {<<None, None>>, <<Some(1), Some(2)>>}, limit \in 1..MaxLimit,
        descending \in BOOLEAN}
    \cup
    {[kind |-> "provenance", patient_id |-> "pA", start |-> None, end |-> None,
      source |-> source, limit |-> limit, descending |-> TRUE] :
        source \in {None, Some("oura")}, limit \in 1..MaxLimit}

\* An ingest call commits the upsert of one candidate; uuid4 gives the
\* candidate an id that sorts anywhere among the stored ones.  A client in
\* the middle of a traversal does not see it happen: `fixed` only records
\* that the rows changed under the traversal.
StoreUpsert ==
    /\ \E write \in PageWrites, new_id \in 1..MaxPageRows :
           LET rec == Parse(write.source, Payload(write.source, <<write.entry>>),
                            write.patient_id, clock, new_id)[1]
           IN  /\ \A r \in sleep_days : r.id # new_id
               /\ upsert_outcome(sleep_days, rec) # "integrity_error"
               /\ sleep_days' =
                      {r \in sleep_days : r.fingerprint # rec.fingerprint}
                      \cup {upsert_row(sleep_days, rec, clock)}
    /\ reader' = IF reader.pc # "idle" /\ sleep_days' # sleep_days
                 THEN [reader EXCEPT !.fixed = FALSE] ELSE reader
    /\ UNCHANGED <<clock, idempotency_keys, raw_vendor_responses,
                   quarantine_records, next_uuid, pc, call, txn, claim, pipe,
                   response, replay, history, fetch, probe>>

\* A client asks for the first page: no cursor.
TraversalStart ==
    /\ reader.pc = "idle"
    /\ \E args \in TraversalArgs :
           reader' = [pc |-> "fetch", args |-> args, cursor |-> None, pages |-> <<>>,
                      initial |-> {r.id : r \in Selected(sleep_days, args)},
                      fixed |-> TRUE]
    /\ UNCHANGED <<clock, idempotency_keys, sleep_days, raw_vendor_responses,
                   quarantine_records, next_uuid, pc, call, txn, claim, pipe,
                   response, replay, history, fetch, probe>>

\* One GET: the page after the client's cursor, read from the committed
\* rows; the client goes on with next_cursor until a page has none.
\* `initial` keeps the ids of the rows in scope when the traversal began.
FetchPage ==
    /\ reader.pc = "fetch"
    /\ LET page == get_page(sleep_days, reader.args, reader.cursor)
       IN  reader' = [reader EXCEPT
                         !.pages = Append(@, page),
                         !.cursor = page.next_cursor,
                         !.pc = IF page.has_more THEN "fetch" ELSE "done"]
    /\ UNCHANGED <<clock, idempotency_keys, sleep_days, raw_vendor_responses,
                   quarantine_records, next_uuid, pc, call, txn, claim, pipe,
                   response, replay, history, fetch, probe>>

\* ------------------------------------------- vendor fetch: fetch_with_retry
TRANSIENT_STATUS_CODES == {429, 500, 502, 503, 504}

\* What one client.request(...) can come to: a response with a status code,
\* a timeout (httpx.TimeoutException) or another transport error.
Responded(status) == [kind |-> "response", status |-> status]

RequestOutcomes ==
    {Responded(s) : s \in {200, 400, 401, 403, 404, 429, 500, 501, 502, 503, 504}}
    \cup {[kind |-> "timeout", status |-> 0], [kind |-> "connect_error", status |-> 0]}

\* The body of fetch_with_retry for one attempt: a transient status raises
\* TransientHTTPError, raise_for_status() raises HTTPStatusError for any
\* other error status, otherwise the response is returned.
attempt_result(outcome) ==
    LET Raised(error) == [kind |-> "raised", error |-> error, status |-> outcome.status]
    IN  IF outcome.kind = "timeout" THEN Raised("TimeoutException")
        ELSE IF outcome.kind = "connect_error" THEN Raised("ConnectError")
        ELSE IF outcome.status \in TRANSIENT_STATUS_CODES THEN Raised("TransientHTTPError")
        ELSE IF outcome.status >= 400 THEN Raised("HTTPStatusError")
        ELSE [kind |-> "returned", error |-> "none", status |-> outcome.status]

\* A plausible slip: every exception is retried.
retry_if_exception_type_any(result) == result.kind = "raised"

\* retry_if_exception_type((TransientHTTPError, httpx.TimeoutException))
retry_if_exception_type(result) ==
    result.kind = "raised" /\ result.error \in {"TransientHTTPError", "TimeoutException"}

\* A plausible slip: the attempt that reaches the limit is still retried.
stop_after_attempt_late(attempt_number) == attempt_number > retry_max_attempts

\* stop_after_attempt(settings.retry_max_attempts)
stop_after_attempt(attempt_number) == attempt_number >= retry_max_attempts

\* fetch_with_retry is called: no attempt made yet.
FetchCall ==
    /\ fetch.pc = "idle"
    /\ fetch' = [pc |-> "request", attempt_number |-> 1, outcomes |-> <<>>,
                 result |-> None]
    /\ UNCHANGED <<clock, idempotency_keys, sleep_days, raw_vendor_responses,
                   quarantine_records, next_uuid, pc, call, txn, claim, pipe,
                   response, replay, history, reader, probe>>

\* One attempt: the request is made and the retry policy decides what
\* follows: return the response, sleep before the next attempt, or raise
\* (reraise=True: the attempt's own exception).
FetchAttempt ==
    /\ fetch.pc = "request"
    /\ \E outcome \in RequestOutcomes :
           LET result == attempt_result(outcome)
               again == /\ retry_if_exception_type(result)
                        /\ ~stop_after_attempt(fetch.attempt_number)
           IN  fetch' = [fetch EXCEPT
                            !.outcomes = Append(@, outcome),
                            !.pc = IF again THEN "sleep" ELSE "done",
                            !.result = IF again THEN None ELSE Some(result)]
    /\ UNCHANGED <<clock, idempotency_keys, sleep_days, raw_vendor_responses,
                   quarantine_records, next_uuid, pc, call, txn, claim, pipe,
                   response, replay, history, reader, probe>>

\* The backoff wait is over: the next attempt starts.
FetchBackoff ==
    /\ fetch.pc = "sleep"
    /\ fetch' = [fetch EXCEPT !.pc = "request", !.attempt_number = @ + 1]
    /\ UNCHANGED <<clock, idempotency_keys, sleep_days, raw_vendor_responses,
                   quarantine_records, next_uuid, pc, call, txn, claim, pipe,
                   response, replay, history, reader, probe>>

\* ---------------------------------------------------------- specifications
\* Concurrent requests to the ingest endpoint, one per worker.
Next ==
    \/ Tick
    \/ \E w \in Workers :
        \/ Arrive(w)
        \/ ClaimPurge(w)
        \/ ClaimInsert(w)
        \/ ClaimSelect(w)
        \/ ClaimRetry(w)
        \/ ClaimCommit(w)
        \/ StoreRaw(w)
        \/ AdapterParse(w)
        \/ AdapterQuarantine(w)
        \/ ProcessCandidate(w)
        \/ PipelineCommit(w)
        \/ Complete(w)
        \/ CompleteWait(w)

Spec == Init /\ [][Next]_vars

\* Several clients with keys of their own, two patients and both sources,
\* within the lifetime of their keys (no key expires, so no claim finds its
\* row gone and no completion waits for a purge) and with payloads the
\* adapters can parse.
NextShared ==
    \/ \E w \in Workers :
        \/ Receive(w, SharedRequests)
        \/ ClaimPurge(w)
        \/ ClaimInsert(w)
        \/ ClaimSelect(w)
        \/ ClaimCommit(w)
        \/ StoreRaw(w)
        \/ AdapterParse(w)
        \/ ProcessCandidate(w)
        \/ PipelineCommit(w)
        \/ Complete(w)

SpecShared == Init /\ [][NextShared]_vars

\* The endpoint with pipelines that may fail after the claim.
NextAbort ==
    \/ Tick
    \/ \E w \in Workers :
        \/ Receive(w, {rq \in EndpointRequests \ RejectedRequests : rq.data # PayBad})
        \/ ClaimPurge(w)
        \/ ClaimInsert(w)
        \/ ClaimSelect(w)
        \/ ClaimRetry(w)
        \/ ClaimCommit(w)
        \/ StoreRaw(w)
        \/ AdapterParse(w)
        \/ ProcessCandidate(w)
        \/ PipelineCommit(w)
        \/ PipelineAbort(w)
        \/ Complete(w)
        \/ CompleteWait(w)

SpecAbort == Init /\ [][NextAbort]_vars

\* One caller making direct ingest and replay calls one after the other.
Caller == CHOOSE w \in Workers : \A v \in Workers : w <= v

NextSeq ==
    \/ Tick
    \/ IngestCall(Caller)
    \/ ReplayCall(Caller)
    \/ ReplayNext(Caller)
    \/ StoreRaw(Caller)
    \/ AdapterParse(Caller)
    \/ AdapterQuarantine(Caller)
    \/ ProcessCandidate(Caller)
    \/ PipelineCommit(Caller)
    \/ Return(Caller)

SpecSeq == Init /\ [][NextSeq]_vars

\* One caller ingesting payloads of several entries.
NextBatch ==
    \/ Tick
    \/ IngestFrom(Caller, BatchInputs)
    \/ StoreRaw(Caller)
    \/ AdapterParse(Caller)
    \/ AdapterQuarantine(Caller)
    \/ ProcessCandidate(Caller)
    \/ PipelineCommit(Caller)
    \/ Return(Caller)

SpecBatch == Init /\ [][NextBatch]_vars

\* One caller ingesting a night dated day 2, a night with the same native
\* id dated day 1 and another night, and replaying the archive.
NextReplay ==
    \/ Tick
    \/ IngestFrom(Caller,
                  {[source |-> "oura", patient_id |-> "pA", data |-> d] :
                      d \in {PayFuture, PayA,
                             Payload("oura", <<[EntryB EXCEPT !.day = Some(1)]>>)}})
    \/ ReplayCall(Caller)
    \/ ReplayNext(Caller)
    \/ StoreRaw(Caller)
    \/ AdapterParse(Caller)
    \/ ProcessCandidate(Caller)
    \/ PipelineCommit(Caller)
    \/ Return(Caller)

SpecReplay == Init /\ [][NextReplay]_vars

\* The pure functions of the domain and the adapters, each run applying one
\* of them once to an input drawn from the sets above.
NextPure ==
    \/ ApplyFingerprint
    \/ ApplyValidate
    \/ ApplyOuraMapper
    \/ ApplyWithingsMapper

SpecPure == Init /\ [][NextPure]_vars

\* One client following cursors while ingest calls commit upserts.
NextPage ==
    \/ StoreUpsert
    \/ TraversalStart
    \/ FetchPage

SpecPage == Init /\ [][NextPage]_vars

\* One call of fetch_with_retry against a vendor that answers anything.
NextFetch ==
    \/ FetchCall
    \/ FetchAttempt
    \/ FetchBackoff

SpecFetch == Init /\ [][NextFetch]_vars

\* ------------------------------------------------------- idempotent claim
SameRequest(w1, w2) ==
    /\ call[w1].kind = "endpoint" /\ call[w2].kind = "endpoint"
    /\ call[w1].key = call[w2].key
    /\ call[w1].request_hash = call[w2].request_hash

HasClaimed(w) == claim[w].result.status = "claimed"

\* The claim transactions of w1 and w2 began less than one TTL apart.
SameWindow(w1, w2) ==
    /\ claim[w1].now < claim[w2].now + IDEMPOTENCY_TTL
    /\ claim[w2].now < claim[w1].now + IDEMPOTENCY_TTL

\* The endpoint is still serving the request of w.
InProgress(w) == pc[w] \notin {"idle", "done"}

\* C1, as stated: of the concurrent requests with the same key and the same
\* request hash, at most one is answered `claimed`: no two of them hold
\* `claimed` while both are still being served.
C1_OneClaimedAmongConcurrent ==
    \A w1, w2 \in Workers :
        (w1 # w2 /\ SameRequest(w1, w2) /\ InProgress(w1) /\ InProgress(w2))
            => ~(HasClaimed(w1) /\ HasClaimed(w2))

\* C1, amended: of the requests with the same key and the same request hash
\* whose claims begin less than one TTL apart, at most one is answered
\* `claimed`; a request answered `in_flight` or `completed` from the live
\* row it read got a row that some request had claimed, `completed` carries
\* exactly the status code and response body stored on that row, and
\* `in_flight` means the row had no stored response.
C1_ClaimExclusiveWithinTtl ==
    /\ \A w1, w2 \in Workers :
           (w1 # w2 /\ SameRequest(w1, w2) /\ SameWindow(w1, w2))
               => ~(HasClaimed(w1) /\ HasClaimed(w2))
    /\ \A w \in Workers : claim[w].result.status = "completed" => claim[w].seen # {}
    /\ \A w \in Workers :
           claim[w].result.status \in {"in_flight", "completed"} =>
               \A row \in claim[w].seen :
                   /\ row.expires_at > claim[w].now
                   /\ \E v \in Workers \ {w} :
                          /\ call[v].kind = "endpoint" /\ call[v].key = call[w].key
                          /\ HasClaimed(v) /\ claim[v].now = row.created_at
                   /\ claim[w].result.status = "completed" =>
                          /\ IsSome(row.status_code)
                          /\ claim[w].result.status_code = row.status_code
                          /\ claim[w].result.response_body = row.response_body
                          /\ response[w].status_code = Val(row.status_code)
                          /\ response[w].data = row.response_body
                   /\ claim[w].result.status = "in_flight" => IsNone(row.status_code)

\* Two requests with the same key and hash in one TTL window: the first
\* claimed and completed, the second got the stored response back.
C1_Witness ==
    \E w1, w2 \in Workers :
        /\ w1 # w2 /\ SameRequest(w1, w2) /\ SameWindow(w1, w2)
        /\ HasClaimed(w1)
        /\ claim[w2].result.status = "completed"

\* C2: between the creation of a key's row and its expiry the ingestion
\* pipeline is started at most once for the key: two requests with the same
\* key that both started the pipeline claimed at least one TTL apart.
PipelineStarted(w) == call[w].kind = "endpoint" /\ pipe[w].raw_id # 0

C2_PipelineOncePerKeyWindow ==
    \A w1, w2 \in Workers :
        (w1 # w2 /\ PipelineStarted(w1) /\ PipelineStarted(w2)
         /\ call[w1].key = call[w2].key)
            => (\/ claim[w1].now + IDEMPOTENCY_TTL <= claim[w2].now
                \/ claim[w2].now + IDEMPOTENCY_TTL <= claim[w1].now)

\* A second request with the key was turned away while the first one's
\* pipeline had started.
C2_Witness ==
    \E w1, w2 \in Workers :
        /\ w1 # w2 /\ PipelineStarted(w1)
        /\ call[w2].kind = "endpoint" /\ call[w1].key = call[w2].key
        /\ pc[w2] = "done" /\ ~PipelineStarted(w2)
        /\ SameWindow(w1, w2)

\* C6: a claim that reads a live row for its key whose request hash differs
\* from its own returns `conflict`, whether that row is still in flight or
\* already completed, and only then; the endpoint answers it with 409
\* idempotency-conflict and does not run the pipeline.
C6_ConflictOnDifferentHash ==
    \A w \in Workers : \A row \in claim[w].seen :
        /\ (row.request_hash # call[w].request_hash) <=>
               (claim[w].result.status = "conflict")
        /\ claim[w].result.status = "conflict" =>
               /\ response[w] = conflict_response
               /\ ~PipelineStarted(w)

\* A request was answered `conflict` from a row that was already completed.
C6_Witness ==
    \E w \in Workers : \E row \in claim[w].seen :
        /\ claim[w].result.status = "conflict"
        /\ IsSome(row.status_code)
        /\ response[w].status_code = 409

\* C7: a claim that reads a live, completed row with its own request hash
\* returns `completed` with exactly the stored status code and response
\* body; the endpoint answers with that status code and body, which are the
\* response of a request that ran the pipeline for the key, and the retried
\* request does not run the pipeline.
C7_CompletedReplaysStoredResponse ==
    \A w \in Workers : \A row \in claim[w].seen :
        (IsSome(row.status_code) /\ row.request_hash = call[w].request_hash) =>
            /\ claim[w].result =
                   [status |-> "completed", status_code |-> row.status_code,
                    response_body |-> row.response_body]
            /\ response[w] =
                   [status_code |-> Val(row.status_code), problem |-> "none",
                    data |-> row.response_body]
            /\ \E v \in Workers \ {w} :
                   /\ PipelineStarted(v) /\ call[v].key = call[w].key
                   /\ response[v] = response[w]
            /\ ~PipelineStarted(w)
            /\ next_uuid[w] = 0

\* A retried request got the stored 201 response of the original back.
C7_Witness ==
    \E w \in Workers :
        /\ claim[w].result.status = "completed"
        /\ response[w].status_code = HTTP_CREATED
        /\ pc[w] = "done"

\* A row of idempotency_keys is gone after the step (a completed row is the
\* same row with its response stored).
RowDeleted(r) ==
    \A r2 \in idempotency_keys' : ~(r2.key = r.key /\ r2.created_at = r.created_at)

\* C8: a claim that starts when the key's row has expired deletes that row
\* and returns `claimed`, whatever the row's state and stored request hash;
\* and claim never deletes a row whose expiry has not elapsed.
C8_ExpiredRowPurgedThenClaimed ==
    /\ [][\A w \in Workers :
            (pc[w] = "claim_purge" /\ pc'[w] = "claim_insert") =>
                \A r \in idempotency_keys :
                    (r.key = call[w].key /\ r.expires_at <= txn[w].now)
                        => r \in claim'[w].purged]_vars
    /\ [](\A w \in Workers :
             claim[w].purged # {} =>
                 /\ claim[w].result.status \in {"none", "claimed"}
                 /\ pc[w] \notin {"claim_select", "claim_retry"})
    /\ [][\A r \in idempotency_keys : RowDeleted(r) => r.expires_at <= clock]_vars

\* A request claimed a key whose expired row was completed for another
\* request hash, and the expired row is gone.
C8_Witness ==
    \E w \in Workers : \E r \in claim[w].purged :
        /\ IsSome(r.status_code)
        /\ r.request_hash # call[w].request_hash
        /\ claim[w].result.status = "claimed"
        /\ r \notin idempotency_keys
        /\ pc[w] = "store_raw"

\* ------------------------------------------------------ sequential ingest
\* The direct ingest call of the caller has just returned.
IngestReturned == pc[Caller] = "returned" /\ call[Caller].kind = "ingest"

\* The returned call had the same source, patient and payload as the call
\* before it.
RepeatsPreviousCall ==
    /\ IngestReturned
    /\ IsSome(history.prev)
    /\ Val(history.prev).source = call[Caller].source
    /\ Val(history.prev).patient_id = call[Caller].patient_id
    /\ Val(history.prev).data = call[Caller].data

\* The canonical row of candidate i of the returned call is persisted with
\* the candidate's values, and it is the only row with its fingerprint.
CandidatePersisted(i) ==
    LET cand == pipe[Caller].cands[i]
    IN  /\ \E r \in sleep_days : Measurements(r) = Measurements(cand)
        /\ Cardinality({r \in sleep_days : r.fingerprint = cand.fingerprint}) = 1

Upserted(i) == pipe[Caller].results[i].status \in {"created", "deduplicated"}

\* C3: when ingest is called twice in sequence with the same source, patient
\* and payload, the second call reports records_inserted = 0 and every
\* record it upserted has exactly one canonical row, carrying the second
\* call's values.
C3_SecondIngestInsertsNothing ==
    RepeatsPreviousCall =>
        /\ pipe[Caller].records_inserted = 0
        /\ \A i \in 1..Len(pipe[Caller].results) : Upserted(i) => CandidatePersisted(i)

\* C4: when an ingest call that quarantined a candidate returns, every other
\* candidate it reported as created or deduplicated has its canonical row
\* persisted with that candidate's values.
C4_QuarantineSparesOthers ==
    (IngestReturned /\ pipe[Caller].records_quarantined > 0) =>
        \A i \in 1..Len(pipe[Caller].results) : Upserted(i) => CandidatePersisted(i)

\* C5: when a replay pass returns that follows an earlier pass with the same
\* source, patient and window, the store content is what the first pass
\* left: the same canonical rows with the same measurement fields.
C5_ReplayLeavesStoreUnchanged ==
    (/\ pc[Caller] = "returned" /\ call[Caller].kind = "replay"
     /\ IsSome(history.first_pass)
     /\ Val(history.first_pass).args = ReplayArgs(call[Caller]))
        => StoreContent = Val(history.first_pass).content

\* ------------------------------------------------------------------ upsert
\* Worker w takes a step in which it upserts a candidate that passed
\* validation.
Candidate(w) == pipe[w].cands[pipe[w].idx]

UpsertAttempted(w) ==
    /\ pc[w] = "candidate"
    /\ pipe'[w].idx = pipe[w].idx + 1
    /\ validate_sleep_record(model_dump(Candidate(w)), clock) = <<>>

FingerprintKnown(w) ==
    \E r \in SleepDaysView(w) : r.fingerprint = Candidate(w).fingerprint

NativeIdKnown(w) ==
    \E r \in SleepDaysView(w) : SameNativeId(r, Candidate(w))

LastResult(w) == pipe'[w].results[Len(pipe'[w].results)]

\* The step added the candidate as a new row and reported it created.
InsertedAsNew(w) ==
    /\ Candidate(w) \notin SleepDaysView(w)
    /\ SleepDaysView(w)' = SleepDaysView(w) \cup {Candidate(w)}
    /\ LastResult(w) = RecordResult(Some(Candidate(w).id), "created")
    /\ pipe'[w].records_inserted = pipe[w].records_inserted + 1
    /\ pipe'[w].records_updated = pipe[w].records_updated

\* The step overwrote the row with the candidate's fingerprint, added no
\* row and reported the candidate deduplicated.
Overwritten(w) ==
    LET rec == Candidate(w)
        old == CHOOSE r \in SleepDaysView(w) : r.fingerprint = rec.fingerprint
        now == CHOOSE r \in SleepDaysView(w)' : r.fingerprint = rec.fingerprint
    IN  /\ \E r \in SleepDaysView(w)' : r.fingerprint = rec.fingerprint
        /\ SleepDaysView(w)' \ {now} = SleepDaysView(w) \ {old}
        /\ Measurements(now) = Measurements(rec)
        /\ now.extra = rec.extra
        /\ now.raw_payload = rec.raw_payload
        /\ now.updated_at = txn'[w].now
        /\ now.id = old.id
        /\ now.patient_id = old.patient_id
        /\ now.ingested_at = old.ingested_at
        /\ LastResult(w) = RecordResult(Some(old.id), "deduplicated")
        /\ pipe'[w].records_updated = pipe[w].records_updated + 1
        /\ pipe'[w].records_inserted = pipe[w].records_inserted

\* The step stored nothing for the candidate and reported it quarantined.
RejectedByStore(w) ==
    /\ \A r \in SleepDaysView(w)' : r.fingerprint # Candidate(w).fingerprint
    /\ LastResult(w) = RecordResult(None, "quarantined")
    /\ pipe'[w].records_inserted = pipe[w].records_inserted
    /\ pipe'[w].records_updated = pipe[w].records_updated

\* C9, as stated: the upsert of a record inserts a new row and reports it
\* created when no row has the record's fingerprint; otherwise it overwrites
\* the existing row, adds no row and reports it deduplicated.
C9_UpsertByFingerprintOnly ==
    [][\A w \in Workers :
          UpsertAttempted(w) =>
              IF FingerprintKnown(w) THEN Overwritten(w) ELSE InsertedAsNew(w)]_vars

\* C9, amended: the upsert of a record inserts a new row and reports it
\* created when no row has the record's fingerprint and no row has its
\* (source, source_record_id); when a row has the fingerprint it overwrites
\* that row's measurement fields, onset and offset, extension map and raw
\* payload, refreshes updated_at, adds no row and reports it deduplicated;
\* when only the (source, source_record_id) is taken it stores nothing.
C9_UpsertInsertsOrOverwrites ==
    [][\A w \in Workers :
          UpsertAttempted(w) =>
              IF FingerprintKnown(w) THEN Overwritten(w)
              ELSE IF NativeIdKnown(w) THEN RejectedByStore(w)
              ELSE InsertedAsNew(w)]_vars

\* A call returned that overwrote an existing row: the record it reports as
\* deduplicated is stored under the id of the earlier row with the values
\* of the call.
C9_Witness ==
    /\ IngestReturned
    /\ \E i \in 1..Len(pipe[Caller].results) :
           /\ pipe[Caller].results[i].status = "deduplicated"
           /\ \E r \in sleep_days :
                  /\ Measurements(r) = Measurements(pipe[Caller].cands[i])
                  /\ r.raw_payload = pipe[Caller].cands[i].raw_payload
                  /\ r.id # pipe[Caller].cands[i].id
                  /\ r.updated_at > r.ingested_at

\* ------------------------------------------------------- store invariants
\* C10: in the canonical store no two rows share a fingerprint, no two rows
\* share (source, source_record_id), each row's fingerprint is the hash of
\* its own source, source_record_id and effective_date, every present
\* minute field is >= 0, efficiency is within [0, 1] and offset is strictly
\* after onset when both are present.
C10_StoreInvariants ==
    /\ \A r1, r2 \in sleep_days :
           (r1.fingerprint = r2.fingerprint \/ SameNativeId(r1, r2)) => r1 = r2
    /\ \A r \in sleep_days :
           /\ r.fingerprint =
                  compute_fingerprint(r.source, r.source_record_id, r.effective_date)
           /\ \A f \in MinuteFields : IsSome(r[f]) => Val(r[f]) >= 0
           /\ IsSome(r.sleep_efficiency) =>
                  (Val(r.sleep_efficiency) >= 0 /\ Val(r.sleep_efficiency) <= 10000)
           /\ (IsSome(r.sleep_onset) /\ IsSome(r.sleep_offset)) =>
                  Val(r.sleep_offset).t > Val(r.sleep_onset).t

\* Two requests raced with the same native id on different days: one row
\* is stored and the other record was turned away by the store.
C10_Witness ==
    /\ Cardinality(sleep_days) = 1
    /\ \E i \in 1..Len(quarantine_records) :
           /\ quarantine_records[i].quarantine_reason =
                  "source_record_id_reused_across_dates"
           /\ \E r \in sleep_days :
                  /\ Some(r.fingerprint) # quarantine_records[i].fingerprint
                  /\ IsSome(r.sleep_onset) /\ IsSome(r.sleep_efficiency)
\* ------------------------------------------------- quarantine at ingest
\* The quarantine records the returned call wrote for candidate i.
QuarantinesOf(i) ==
    {k \in 1..Len(quarantine_records) :
        /\ quarantine_records[k].raw_response_id = pipe[Caller].raw_id
        /\ quarantine_records[k].fingerprint = Some(pipe[Caller].cands[i].fingerprint)}

\* No canonical row was created or changed for candidate i: no row has its
\* id or carries its payload.
NoRowFor(i) ==
    \A r \in sleep_days :
        /\ r.id # pipe[Caller].cands[i].id
        /\ r.fingerprint = pipe[Caller].cands[i].fingerprint =>
               r.raw_payload # pipe[Caller].cands[i].raw_payload

\* C11: when an ingest call returns, every candidate of it that had a
\* validation violation is reported quarantined with a null id, has exactly
\* one quarantine record, of stage validation, whose details are all its
\* violations, and no canonical row was created or changed for it.
C11_InvalidCandidateQuarantinedOnce ==
    IngestReturned =>
        \A i \in 1..Len(pipe[Caller].violations) :
            pipe[Caller].violations[i] # <<>> =>
                /\ pipe[Caller].results[i] = RecordResult(None, "quarantined")
                /\ Cardinality(QuarantinesOf(i)) = 1
                /\ \A k \in QuarantinesOf(i) :
                       /\ quarantine_records[k].pipeline_stage = "validation"
                       /\ quarantine_records[k].quarantine_details =
                              pipe[Caller].violations[i]
                /\ NoRowFor(i)

\* The upsert of worker w's candidate collides on (source, source_record_id)
\* in this step.
UpsertCollides(w) ==
    UpsertAttempted(w) /\ ~FingerprintKnown(w) /\ NativeIdKnown(w)

LastQuarantine(w) == txn'[w].quars[Len(txn'[w].quars)]

\* C12: when a valid candidate's upsert collides on (source,
\* source_record_id), the step writes a quarantine record with reason
\* source_record_id_reused_across_dates for it, reports it quarantined,
\* leaves every row with that native id as it is, and goes on with the next
\* candidate.
C12_CollisionQuarantinedRowKept ==
    [][\A w \in Workers :
          UpsertCollides(w) =>
              /\ LastResult(w) = RecordResult(None, "quarantined")
              /\ txn'[w].quars # <<>>
              /\ LastQuarantine(w).quarantine_reason =
                     "source_record_id_reused_across_dates"
              /\ LastQuarantine(w).fingerprint = Some(Candidate(w).fingerprint)
              /\ \A r \in SleepDaysView(w) :
                     SameNativeId(r, Candidate(w)) => r \in SleepDaysView(w)'
              /\ pc'[w] = AfterCandidate(w)]_vars

\* ------------------------------------------------------- adapter failure
\* An ingest of worker w whose payload the adapter could not parse has
\* committed.
AdapterFailed(w) ==
    /\ pc[w] \in {"returned", "replay_next"}
    /\ pipe[w].raw_id # 0
    /\ ParseRaises(call[w].source, call[w].data)

QuarantinesOfBatch(w) ==
    {k \in 1..Len(quarantine_records) :
        quarantine_records[k].raw_response_id = pipe[w].raw_id}

RawRowsOfBatch(w) ==
    {k \in 1..Len(raw_vendor_responses) :
        raw_vendor_responses[k].id = pipe[w].raw_id}

\* C13: when the adapter's parse raises, the ingest commits exactly one
\* quarantine record, of stage adapter and reason adapter_parse_error,
\* carrying the whole raw payload; it returns records_quarantined = 1 and no
\* per-record outcome; the raw payload archived before parsing is in the
\* archive; and from the parse to the commit no canonical row is created
\* or updated.
C13_AdapterFailureQuarantinesBatch ==
    /\ [](\A w \in Workers :
             AdapterFailed(w) =>
                 /\ pipe[w].records_quarantined = 1
                 /\ pipe[w].results = <<>>
                 /\ pipe[w].records_inserted = 0
                 /\ pipe[w].records_updated = 0
                 /\ pipe[w].records_processed = 0
                 /\ Cardinality(QuarantinesOfBatch(w)) = 1
                 /\ \A k \in QuarantinesOfBatch(w) :
                        /\ quarantine_records[k].pipeline_stage = "adapter"
                        /\ quarantine_records[k].quarantine_reason = "adapter_parse_error"
                        /\ quarantine_records[k].raw_payload = call[w].data
                 /\ Cardinality(RawRowsOfBatch(w)) = 1
                 /\ \A k \in RawRowsOfBatch(w) :
                        raw_vendor_responses[k].response_body = call[w].data)
    /\ [][\A w \in Workers :
             (/\ pc[w] \in {"parse", "adapter_quarantine", "commit"}
              /\ ParseRaises(call[w].source, call[w].data))
                 => (sleep_days' = sleep_days /\ txn'[w].rows = {})]_vars

\* A payload with one good and one unparsable entry was ingested over a
\* store that already had a row: the batch is quarantined and the row stays.
C13_Witness ==
    /\ IngestReturned
    /\ AdapterFailed(Caller)
    /\ Len(call[Caller].data.entries) > 1
    /\ sleep_days # {}

\* ------------------------------------------------------------ raw archive
\* C14: every ingest call that returns has added exactly one raw-response
\* row, holding the payload as received, and no step updates or removes a
\* raw-response row.
C14_OneRawRowPerIngest ==
    /\ [](IngestReturned =>
             /\ Cardinality(RawRowsOfBatch(Caller)) = 1
             /\ \A k \in RawRowsOfBatch(Caller) :
                    raw_vendor_responses[k].response_body = call[Caller].data)
    /\ [][\A k \in 1..Len(raw_vendor_responses) :
             /\ k <= Len(raw_vendor_responses')
             /\ raw_vendor_responses'[k] = raw_vendor_responses[k]]_vars

\* ------------------------------------------------------ per-record outcome
\* C15: when an ingest call returns, every mapped candidate has exactly one
\* outcome, one of created, deduplicated, quarantined: created means the
\* store holds a new row with the candidate's id, which is the id reported;
\* deduplicated means no row was added and the id reported is that of the
\* stored row with the candidate's fingerprint; quarantined means no
\* canonical row was written for it and the id reported is null.
C15_OutcomeTellsWhatWasStored ==
    (IngestReturned /\ ~ParseRaises(call[Caller].source, call[Caller].data)) =>
        /\ Len(pipe[Caller].results) = Len(pipe[Caller].cands)
        /\ \A i \in 1..Len(pipe[Caller].results) :
               LET res == pipe[Caller].results[i]
                   cand == pipe[Caller].cands[i]
               IN  /\ res.status \in {"created", "deduplicated", "quarantined"}
                   /\ res.status = "created" =>
                          /\ res.sleep_day_id = Some(cand.id)
                          /\ \E r \in sleep_days :
                                 r.id = cand.id /\ r.fingerprint = cand.fingerprint
                   /\ res.status = "deduplicated" =>
                          /\ IsSome(res.sleep_day_id)
                          /\ Val(res.sleep_day_id) # cand.id
                          /\ \A r \in sleep_days : r.id # cand.id
                          /\ \E r \in sleep_days :
                                 /\ r.id = Val(res.sleep_day_id)
                                 /\ r.fingerprint = cand.fingerprint
                   /\ res.status = "quarantined" =>
                          (IsNone(res.sleep_day_id) /\ NoRowFor(i))

\* ---------------------------------------------------------------- ordering
\* The raw row of worker w's running ingest is in its transaction.
RawArchived(w) ==
    \E k \in 1..Len(txn[w].raws) :
        /\ txn[w].raws[k].id = pipe[w].raw_id
        /\ txn[w].raws[k].response_body = call[w].data

\* The rows the step adds to the transaction of worker w.
RowsWritten(w) == txn'[w].rows \ txn[w].rows

\* C16: within one ingest call the raw payload is archived before the
\* adapter maps it; the candidates are mapped, in the order of the payload's
\* entries, before any of them is handled; a row is only stored by the step
\* that found its candidate valid; and the candidates are handled one at a
\* time in input order, each step adding the outcome of the next candidate
\* to the end of the list.
C16_ArchiveMapValidateStoreInOrder ==
    /\ [][\A w \in Workers :
             (pipe'[w].cands # pipe[w].cands /\ pipe'[w].cands # <<>>) =>
                 /\ pc[w] = "parse"
                 /\ RawArchived(w)
                 /\ pipe[w].results = <<>>
                 /\ txn[w].rows = {}]_vars
    /\ [][\A w \in Workers :
             (pipe'[w].results # pipe[w].results /\ pipe'[w].results # <<>>) =>
                 /\ pc[w] = "candidate"
                 /\ pipe'[w].cands = pipe[w].cands
                 /\ Len(pipe'[w].results) = pipe[w].idx
                 /\ SubSeq(pipe'[w].results, 1, pipe[w].idx - 1) = pipe[w].results
                 /\ pipe'[w].idx = pipe[w].idx + 1]_vars
    /\ [][\A w \in Workers :
             RowsWritten(w) # {} =>
                 /\ UpsertAttempted(w)
                 /\ \A r \in RowsWritten(w) : r.fingerprint = Candidate(w).fingerprint]_vars
    /\ [](\A w \in Workers :
             (pipe[w].cands # <<>> /\ pc[w] # "store_raw") =>
                 LET es == MapperEntries(call[w].source, call[w].data)
                 IN  /\ Len(pipe[w].cands) = Len(es)
                     /\ \A i \in 1..Len(es) : pipe[w].cands[i].raw_payload = es[i]
                     /\ Len(pipe[w].results) = pipe[w].idx - 1
                     /\ \A i \in 1..Len(pipe[w].results) :
                            /\ pipe[w].results[i].status = "created" =>
                                   pipe[w].results[i].sleep_day_id =
                                       Some(pipe[w].cands[i].id)
                            /\ pipe[w].violations[i] # <<>> =>
                                   pipe[w].results[i].status = "quarantined")

\* A call with three candidates returned their outcomes in input order:
\* the first quarantined by validation, the second created.
C16_Witness ==
    /\ IngestReturned
    /\ Len(pipe[Caller].results) = 3
    /\ pipe[Caller].violations[1] # <<>>
    /\ pipe[Caller].results[2] = RecordResult(Some(pipe[Caller].cands[2].id), "created")

\* ------------------------------------------------------- endpoint answers
\* The pipeline of worker w's request has returned to the endpoint.
PipelineReturned(w) ==
    /\ call[w].kind = "endpoint"
    /\ HasClaimed(w)
    /\ pc[w] \in {"complete", "complete_wait", "done"}

SomeCreated(w) ==
    \E i \in 1..Len(pipe[w].results) : pipe[w].results[i].status = "created"

\* The step in which worker w's complete_idempotency_key takes effect.
Completes(w) == pc[w] \in {"complete", "complete_wait"} /\ pc'[w] = "done"

\* C17: the endpoint answers 201 exactly when at least one candidate of
\* the batch was created and 200 otherwise; completion stores that status
\* code and the response on the key's row: every row the completing step
\* writes carries them, and the request's own row, when it is still there,
\* is written.
C17_Status201IffCreated ==
    /\ [](\A w \in Workers :
             PipelineReturned(w) =>
                 response[w].status_code =
                     (IF SomeCreated(w) THEN HTTP_CREATED ELSE HTTP_OK))
    /\ [][\A w \in Workers :
             Completes(w) =>
                 /\ \A r \in idempotency_keys' \ idempotency_keys :
                        /\ r.key = call[w].key
                        /\ r.status_code = Some(response[w].status_code)
                        /\ r.response_body = response[w].data
                 /\ \A r \in idempotency_keys :
                        (r.key = call[w].key /\ r.created_at = claim[w].now) =>
                            \E r2 \in idempotency_keys' :
                                /\ r2.created_at = r.created_at
                                /\ r2.status_code = Some(response[w].status_code)]_vars

\* A request whose only candidate was deduplicated was answered 200, and
\* 200 is stored on the row it claimed.
C17_Witness ==
    \E w \in Workers :
        /\ PipelineReturned(w) /\ pc[w] = "done"
        /\ Outcomes(pipe[w].results) = <<"deduplicated">>
        /\ response[w].status_code = HTTP_OK
        /\ \E r \in idempotency_keys :
               /\ r.key = call[w].key /\ r.created_at = claim[w].now
               /\ r.status_code = Some(HTTP_OK)

\* The request of worker w has no Idempotency-Key or an unsupported source.
Rejected(w) ==
    /\ call[w].kind = "endpoint"
    /\ (call[w].key = "" \/ call[w].source \notin {"oura", "withings"})

\* C18: a request without an Idempotency-Key is answered 400 and a request
\* with a key for a source other than oura or withings 422; the claim is
\* not called for it, and no idempotency row, raw response, quarantine
\* record or canonical row is written for it.
C18_RejectedBeforeClaim ==
    /\ [](\A w \in Workers :
             Rejected(w) =>
                 /\ pc[w] = "done"
                 /\ response[w].status_code = (IF call[w].key = "" THEN 400 ELSE 422)
                 /\ response[w].problem =
                        (IF call[w].key = "" THEN "missing-idempotency-key"
                         ELSE "unsupported-source")
                 /\ claim[w] = NoClaim
                 /\ txn[w] = NoTxn
                 /\ pipe[w] = NoPipe
                 /\ next_uuid[w] = 0)
    /\ [][\A w \in Workers :
             (call'[w] # call[w] /\ Rejected(w)') =>
                 UNCHANGED <<idempotency_keys, sleep_days, raw_vendor_responses,
                             quarantine_records>>]_vars
    /\ [](/\ \A r \in idempotency_keys :
                 r.key # "" /\ r.source \in {"oura", "withings"}
          /\ \A r \in sleep_days : r.source \in {"oura", "withings"}
          /\ \A k \in 1..Len(raw_vendor_responses) :
                 raw_vendor_responses[k].source \in {"oura", "withings"}
          /\ \A k \in 1..Len(quarantine_records) :
                 quarantine_records[k].source \in {"oura", "withings"})

\* One request without a key was answered 400 and one with an unsupported
\* source 422, and the store is empty.
C18_Witness ==
    /\ \E w \in Workers :
           Rejected(w) /\ call[w].key = "" /\ response[w].status_code = 400
    /\ \E w \in Workers :
           Rejected(w) /\ call[w].key # "" /\ response[w].status_code = 422
    /\ idempotency_keys = {}
    /\ raw_vendor_responses = <<>>

\* The claim of worker w returned conflict or in_flight.
Refused(w) == claim[w].result.status \in {"conflict", "in_flight"}

\* C19: the pipeline runs only for a request whose claim returned claimed;
\* a request whose claim returned conflict or in_flight is answered with
\* the idempotency-conflict or the idempotency-in-flight problem, two
\* different types; the step that refuses it changes no relation and
\* leaves no pending write behind, and afterwards the request takes no
\* further step: no pipeline run and no second claim.
C19_RefusedWithoutPipeline ==
    /\ [](\A w \in Workers : PipelineStarted(w) => HasClaimed(w))
    /\ [](\A w \in Workers :
             Refused(w) =>
                 /\ pc[w] = "done"
                 /\ pipe[w] = NoPipe
                 /\ txn[w] = NoTxn
                 /\ response[w].problem =
                        (IF claim[w].result.status = "conflict"
                         THEN "idempotency-conflict" ELSE "idempotency-in-flight")
                 /\ response[w].status_code = 409)
    /\ [][\A w \in Workers :
             (Refused(w)' /\ ~Refused(w)) =>
                 /\ txn[w].idem_del = {} /\ txn[w].idem_ins = {}
                 /\ UNCHANGED <<idempotency_keys, sleep_days, raw_vendor_responses,
                                quarantine_records>>]_vars
    /\ [][\A w \in Workers :
             Refused(w) =>
                 /\ pc'[w] = pc[w] /\ claim'[w] = claim[w] /\ txn'[w] = txn[w]
                 /\ pipe'[w] = pipe[w] /\ response'[w] = response[w]]_vars

\* A request was refused as in flight while the request that holds the key
\* was running its pipeline.
C19_Witness ==
    \E w, v \in Workers :
        /\ claim[w].result.status = "in_flight"
        /\ response[w] = in_flight_response
        /\ HasClaimed(v) /\ call[v].key = call[w].key
        /\ pc[v] \in {"parse", "candidate", "adapter_quarantine", "commit"}

\* ------------------------------------------------------------- idempotence
\* C20: when ingest is re-run with the same source, patient and payload as
\* the call before it, at whatever later time, it maps the same set of
\* fingerprints and classifies every candidate as before, with created
\* turned into deduplicated: a candidate that was created or deduplicated
\* is deduplicated, and a candidate that was quarantined is quarantined.
C20_RerunClassifiesTheSame ==
    RepeatsPreviousCall =>
        /\ Fingerprints(pipe[Caller].cands) = Val(history.prev).fingerprints
        /\ Len(pipe[Caller].results) = Len(Val(history.prev).outcomes)
        /\ \A i \in 1..Len(pipe[Caller].results) :
               pipe[Caller].results[i].status =
                   (IF Val(history.prev).outcomes[i] = "quarantined"
                    THEN "quarantined" ELSE "deduplicated")

\* ------------------------------------------------------------- fingerprint
FingerprintApplied == probe.fn = "compute_fingerprint"

Validated == probe.fn = "validate_sleep_record"

Reasons(errors) == {errors[i].reason : i \in 1..Len(errors)}

PresentStage(record, f) == IF IsSome(record[f]) THEN Val(record[f]) ELSE 0

SumOfPresentStages(record) ==
    PresentStage(record, "deep_sleep_minutes") + PresentStage(record, "light_sleep_minutes")
    + PresentStage(record, "rem_sleep_minutes") + PresentStage(record, "awake_minutes")

\* C24: validation reports stage_sum_exceeds_total exactly when the total is
\* present and the sum of the present stage fields is greater than
\* total * 1.05: a sum equal to the total passes, a sum of exactly 105% of
\* the total passes, 105.1% fails, and without a total the rule is not
\* evaluated.
C24_StageSumTolerance ==
    Validated =>
        LET total == probe.record.total_sleep_minutes
            sum == SumOfPresentStages(probe.record)
        IN  ("stage_sum_exceeds_total" \in Reasons(probe.out))
                <=> (IsSome(total) /\ sum * 100 > Val(total) * 105)

\* The boundary: total 100 with stages 100 + 5, exactly 105%, passes.
C24_Witness ==
    /\ Validated
    /\ probe.record.total_sleep_minutes = Some(100)
    /\ probe.record.deep_sleep_minutes = Some(100)
    /\ probe.record.light_sleep_minutes = Some(5)
    /\ "stage_sum_exceeds_total" \notin Reasons(probe.out)

RuleResults(record, today) ==
    <<Rule1(record), Rule2(record), Rule3(record), Rule4(record), Rule5(record, today),
      Rule6(record), Rule7(record), Rule8(record), Rule9(record)>>

RECURSIVE TotalLen(_)
TotalLen(seqs) == IF seqs = <<>> THEN 0 ELSE Len(Head(seqs)) + TotalLen(Tail(seqs))

LacksTimezone(ts) == IsSome(ts) /\ ~Val(ts).tz

WithingsMapped == probe.fn = "WithingsMapper.parse"

\* The field the alias precedence is specified to read.
SpecificOrLegacy(specific, legacy) == IF IsSome(specific) THEN specific ELSE legacy

\* C29: for the vendor-b latency measurements the mapper uses the specific
\* field (sleep_latency, wakeup_latency) whenever it is present, whatever
\* its value, and the legacy field (durationtosleep, durationtowakeup) only
\* when the specific one is absent.
C29_SpecificLatencyPreferred ==
    WithingsMapped =>
        LET entry == probe.entry
            extra == probe.out[1].extra
        IN  /\ extra.latency_minutes
                   = sec_to_min(SpecificOrLegacy(entry.sleep_latency, entry.durationtosleep))
            /\ extra.wakeup_latency_minutes
                   = sec_to_min(SpecificOrLegacy(entry.wakeup_latency,
                                                 entry.durationtowakeup))

OuraMapped == probe.fn = "OuraMapper.parse"

FloorMinutes(seconds) ==
    IF IsNone(seconds) THEN None
    ELSE Some(CHOOSE m \in 0..Val(seconds) :
                  m * 60 <= Val(seconds) /\ Val(seconds) < (m + 1) * 60)

\* C30: the vendor-a mapper converts each duration from seconds to minutes
\* by floor division by 60 and an efficiency percentage to the ratio
\* pct / 100 (kept in units of 1e-4): durations of 26010, 5160, 15600, 5400
\* and 2340 seconds and efficiency 88 become 433, 86, 260, 90 and 39 minutes
\* and 0.88.
C30_OuraUnitConversion ==
    OuraMapped =>
        LET entry == probe.entry
            day == probe.out[1]
        IN  /\ day.total_sleep_minutes = FloorMinutes(entry.total_sleep_duration)
            /\ day.deep_sleep_minutes = FloorMinutes(entry.deep_sleep_duration)
            /\ day.light_sleep_minutes = FloorMinutes(entry.light_sleep_duration)
            /\ day.rem_sleep_minutes = FloorMinutes(entry.rem_sleep_duration)
            /\ day.awake_minutes = FloorMinutes(entry.awake_time)
            /\ IsSome(entry.efficiency) =>
                   /\ IsSome(day.sleep_efficiency)
                   /\ Val(day.sleep_efficiency) * 100 = Val(entry.efficiency) * 10000
            /\ IsNone(entry.efficiency) => IsNone(day.sleep_efficiency)
            /\ (/\ entry.total_sleep_duration = Some(26010)
                /\ entry.deep_sleep_duration = Some(5160)
                /\ entry.light_sleep_duration = Some(15600)
                /\ entry.rem_sleep_duration = Some(5400)
                /\ entry.awake_time = Some(2340)
                /\ entry.efficiency = Some(88))
                   => /\ day.total_sleep_minutes = Some(433)
                      /\ day.deep_sleep_minutes = Some(86)
                      /\ day.light_sleep_minutes = Some(260)
                      /\ day.rem_sleep_minutes = Some(90)
                      /\ day.awake_minutes = Some(39)
                      /\ day.sleep_efficiency = Some(8800)

\* The night of the adapter tests, mapped.
C30_Witness ==
    /\ OuraMapped
    /\ probe.entry.total_sleep_duration = Some(26010)
    /\ probe.entry.deep_sleep_duration = Some(5160)
    /\ probe.entry.light_sleep_duration = Some(15600)
    /\ probe.entry.efficiency = Some(88)
    /\ probe.out[1].total_sleep_minutes = Some(433)
    /\ probe.out[1].sleep_efficiency = Some(8800)

\* ------------------------------------------------------------ vendor fetch
FetchDone == fetch.pc = "done"

Succeeded(outcome) == outcome.kind = "response" /\ outcome.status < 400

\* Transient as the code has it: status 429, 500, 502, 503 or 504, or a
\* timeout.
Transient(outcome) ==
    \/ outcome.kind = "timeout"
    \/ outcome.kind = "response" /\ outcome.status \in {429, 500, 502, 503, 504}

\* Transient as a status class: status 429 or any 5xx, or a timeout.
TransientClass(outcome) ==
    \/ outcome.kind = "timeout"
    \/ outcome.kind = "response" /\ (outcome.status = 429 \/ outcome.status \in 500..599)

Requests == IF fetch.pc = "idle" THEN 0 ELSE Len(fetch.outcomes)

\* C27: a call of fetch_with_retry makes at most retry_max_attempts (3)
\* requests; it returns as soon as an attempt succeeds (the successful
\* response, no request after it); when every attempt fails transiently it
\* stops after the last allowed attempt and re-raises that attempt's error.
C27_BoundedAttempts ==
    /\ Requests <= 3
    /\ fetch.pc # "idle" =>
           \A i \in 1..Len(fetch.outcomes) :
               Succeeded(fetch.outcomes[i]) =>
                   /\ i = Len(fetch.outcomes)
                   /\ FetchDone
                   /\ fetch.result = Some([kind |-> "returned", error |-> "none",
                                           status |-> fetch.outcomes[i].status])
    /\ (FetchDone /\ \A i \in 1..Len(fetch.outcomes) : Transient(fetch.outcomes[i])) =>
           /\ Len(fetch.outcomes) = 3
           /\ Val(fetch.result).kind = "raised"
           /\ Val(fetch.result).status = fetch.outcomes[3].status
           /\ Val(fetch.result).error =
                  IF fetch.outcomes[3].kind = "timeout" THEN "TimeoutException"
                  ELSE "TransientHTTPError"

\* Three transient failures in a row, each different: the call has raised
\* the third.
C27_Witness ==
    /\ FetchDone
    /\ fetch.outcomes = <<Responded(503), [kind |-> "timeout", status |-> 0],
                          Responded(429)>>
    /\ Val(fetch.result).kind = "raised"
    /\ Val(fetch.result).status = 429

\* What the retry policy does with the outcome of every request of the
\* call, `transient` being the outcomes taken as transient: a transient one
\* is followed by another attempt while attempts remain, any other ends the
\* call with that attempt.
RetriesExactly(transient(_)) ==
    fetch.pc # "idle" =>
        \A i \in 1..Len(fetch.outcomes) :
            LET last == i = Len(fetch.outcomes) /\ FetchDone
            IN  /\ (transient(fetch.outcomes[i]) /\ i < 3) => ~last
                /\ ~transient(fetch.outcomes[i]) => last

FoundByComplete(w) ==
    IF pc[w] = "complete" THEN {r \in idempotency_keys : r.key = call[w].key}
    ELSE pipe[w].wait_row \cap idempotency_keys

\* C26: complete(key, status, body) sets the key row's status code and
\* response body and clears its lock marker, leaving the row's request hash,
\* source and expiry (and every other row) as they were; for a key that has
\* no row it changes nothing; applied again with the same arguments it
\* leaves the row as it already is.
C26_CompleteSetsResultOnly ==
    [][\A w \in Workers :
           Completes(w) =>
               LET found == FoundByComplete(w)
                   status == response[w].status_code
                   body == Val(response[w].data)
               IN  /\ \A r \in found :
                          \E r2 \in idempotency_keys' :
                              /\ r2.key = r.key
                              /\ r2.status_code = Some(status)
                              /\ r2.response_body = Some(body)
                              /\ r2.locked_at = None
                              /\ r2.request_hash = r.request_hash
                              /\ r2.source = r.source
                              /\ r2.expires_at = r.expires_at
                              /\ r2.created_at = r.created_at
                   /\ idempotency_keys \ found \subseteq idempotency_keys'
                   /\ Cardinality(idempotency_keys') = Cardinality(idempotency_keys)
                   /\ found = {} => idempotency_keys' = idempotency_keys
                   /\ \A r \in idempotency_keys' :
                          r.key = call[w].key /\ r \notin idempotency_keys
                              => complete_row(r, status, body) = r]_vars

\* A request that created a row has stamped 201 and its answer on the row it
\* claimed, whose lock is cleared and whose hash and expiry are those of the
\* claim.
C26_Witness ==
    \E w \in Workers :
        /\ PipelineReturned(w) /\ pc[w] = "done"
        /\ response[w].status_code = HTTP_CREATED
        /\ \E r \in idempotency_keys :
               /\ r.key = call[w].key
               /\ r.status_code = Some(HTTP_CREATED)
               /\ r.response_body = response[w].data
               /\ r.locked_at = None
               /\ r.request_hash = compute_request_hash(call[w])
               /\ r.expires_at = claim[w].now + IDEMPOTENCY_TTL

\* -------------------------------------------------------------- pagination
TraversalDone == reader.pc = "done"

RECURSIVE Concat(_)
Concat(seqs) == IF seqs = <<>> THEN <<>> ELSE Head(seqs) \o Concat(Tail(seqs))

\* Every item the traversal has returned so far, in the order returned.
Returned_items == Concat([k \in 1..Len(reader.pages) |-> reader.pages[k].rows])

\* The rows of the traversal's patient, date range and source filter among
\* `rows`; while `fixed` holds, sleep_days is as it was at the first page.
InScope(rows) ==
    {r \in rows :
        /\ r.patient_id = reader.args.patient_id
        /\ IsSome(reader.args.start) => r.effective_date >= Val(reader.args.start)
        /\ IsSome(reader.args.end) => r.effective_date < Val(reader.args.end)
        /\ IsSome(reader.args.source) => r.source = Val(reader.args.source)}

Times(id) == Cardinality({i \in 1..Len(Returned_items) : Returned_items[i].id = id})

\* Item a comes strictly before item b in the traversal's order.
InOrder(a, b) ==
    IF reader.args.descending
    THEN \/ a.effective_date > b.effective_date
         \/ a.effective_date = b.effective_date /\ a.id > b.id
    ELSE \/ a.effective_date < b.effective_date
         \/ a.effective_date = b.effective_date /\ a.id < b.id

\* C21: over a fixed set of rows, following the cursors from the first page
\* returns every row of the patient and date range exactly once, ordered by
\* (effective_date, id) in the requested direction, at most `limit` rows per
\* page, with has_more true and a next cursor on every page except the last
\* (three rows with limit 1: exactly three one-row pages); provenance pages
\* the same way, in descending order.
C21_TraversalReturnsEachRowOnce ==
    /\ reader.pc # "idle" =>
           \A k \in 1..Len(reader.pages) :
               /\ Len(reader.pages[k].rows) <= reader.args.limit
               /\ reader.pages[k].has_more <=> IsSome(reader.pages[k].next_cursor)
               /\ k < Len(reader.pages) => reader.pages[k].has_more
    /\ (TraversalDone /\ reader.fixed) =>
           LET expected == InScope(sleep_days)
               items == Returned_items
           IN  /\ \A r \in expected : Times(r.id) = 1
               /\ \A i \in 1..Len(items) : \E r \in expected : page_item(r) = items[i]
               /\ \A i \in 1..Len(items), j \in 1..Len(items) :
                      i < j => InOrder(items[i], items[j])
               /\ ~reader.pages[Len(reader.pages)].has_more
               /\ (Cardinality(expected) = 3 /\ reader.args.limit = 1) =>
                      /\ Len(reader.pages) = 3
                      /\ \A k \in 1..3 : Len(reader.pages[k].rows) = 1
               /\ reader.args.kind = "provenance" => reader.args.descending

\* Three rows of the patient read with limit 1 over an unchanging store:
\* three one-row pages, two of them on the same date.
C21_Witness ==
    /\ TraversalDone /\ reader.fixed
    /\ reader.args.kind = "timeline" /\ reader.args.limit = 1
    /\ Cardinality(InScope(sleep_days)) = 3
    /\ Len(reader.pages) = 3
    /\ reader.pages[1].rows[1].effective_date = reader.pages[2].rows[1].effective_date

\* C22: keyset pagination is stable under concurrent writes: when ingest
\* calls insert or update rows between the page fetches of a traversal, no
\* row is returned on two pages and every row that existed when the
\* traversal started is still returned exactly once.
C22_StableUnderConcurrentWrites ==
    TraversalDone =>
        /\ \A i \in 1..Len(Returned_items) : Times(Returned_items[i].id) = 1
        /\ \A id \in reader.initial : Times(id) = 1

\* A traversal of several pages during which the store changed: it returned
\* a row inserted after it began, and another inserted row it did not.
C22_Witness ==
    /\ TraversalDone /\ ~reader.fixed
    /\ Len(reader.pages) >= 2
    /\ reader.initial # {}
    /\ \E i \in 1..Len(Returned_items) : Returned_items[i].id \notin reader.initial
    /\ \E r \in InScope(sleep_days) : Times(r.id) = 0

\* ------------------------------------------------------- frame of the upsert
\* The columns the set_ clause never lists.
IdentityOf(r) ==
    [id |-> r.id, patient_id |-> r.patient_id, source |-> r.source,
     source_record_id |-> r.source_record_id, fingerprint |-> r.fingerprint,
     effective_date |-> r.effective_date, ingested_at |-> r.ingested_at]

\* The step in which worker w upserts a candidate whose fingerprint a row
\* it sees already has.
HitsExisting(w) == UpsertAttempted(w) /\ FingerprintKnown(w)

\* C31: an upsert that hits an existing fingerprint leaves every row with
\* another fingerprint as it was and keeps the hit row's id, patient_id,
\* source, source_record_id, fingerprint, effective_date and ingested_at;
\* the committed store only changes in rows the committing call upserted,
\* each committed row keeps those seven columns for ever, and no step of
\* ingest or replay removes a committed row.
C31_UpsertChangesOnlyMutableColumns ==
    /\ [][\A w \in Workers :
             HitsExisting(w) =>
                 LET fp == Candidate(w).fingerprint
                 IN  /\ {p \in SleepDaysView(w)' : p.fingerprint # fp}
                            = {p \in SleepDaysView(w) : p.fingerprint # fp}
                     /\ {IdentityOf(p) : p \in {q \in SleepDaysView(w)' : q.fingerprint = fp}}
                            = {IdentityOf(p) : p \in {q \in SleepDaysView(w) : q.fingerprint = fp}}
                     /\ sleep_days' = sleep_days]_vars
    /\ [][\A r \in sleep_days :
             /\ \E q \in sleep_days' : IdentityOf(q) = IdentityOf(r)
             /\ r \notin sleep_days' =>
                    \E w \in Workers :
                        /\ pc[w] = "commit"
                        /\ \E p \in txn[w].rows : p.fingerprint = r.fingerprint]_vars

\* A committed row that a later call or replay pass overwrote with other
\* measurements at a later time, and another committed row beside it.
C31_Witness ==
    /\ \E r \in sleep_days :
           /\ r.updated_at > r.ingested_at
           /\ r.total_sleep_minutes = sec_to_min(EntryA2.total_sleep_duration)
           /\ \E o \in sleep_days : o.fingerprint # r.fingerprint

\* ------------------------------------- concurrent ingest of one fingerprint
\* The returned calls that carried a candidate with fingerprint fp, and the
\* classifications they got for it.
Carriers(fp) ==
    {w \in Workers : PipelineReturned(w) /\ fp \in Fingerprints(pipe[w].cands)}

StatusesFor(w, fp) ==
    {pipe[w].results[i].status :
        i \in {k \in 1..Len(pipe[w].results) : pipe[w].cands[k].fingerprint = fp}}

CarriedFingerprints ==
    UNION {Fingerprints(pipe[w].cands) : w \in Workers}

\* The step in which worker w's pipeline commits.
Commits(w) == pc[w] = "commit" /\ pc'[w] # "commit"

\* C32: of the ingest calls that carry a candidate with one fingerprint and
\* run concurrently under different idempotency keys, none fails (each is
\* answered 200 or 201 and its candidate is not quarantined), exactly one
\* is classified created and every other one deduplicated, exactly one
\* canonical row has the fingerprint, and each commit leaves that row with
\* the measurements, extension map and raw payload of the committing call's
\* candidate, so the row ends with the values of the upsert applied last.
C32_ConcurrentSameFingerprint ==
    /\ [](\A fp \in CarriedFingerprints :
            Carriers(fp) # {} =>
                /\ \A w1, w2 \in Carriers(fp) : w1 # w2 => call[w1].key # call[w2].key
                /\ \A w \in Carriers(fp) :
                       /\ response[w].problem = "none"
                       /\ response[w].status_code \in {HTTP_OK, HTTP_CREATED}
                       /\ StatusesFor(w, fp) \subseteq {"created", "deduplicated"}
                /\ Cardinality({w \in Carriers(fp) : "created" \in StatusesFor(w, fp)}) = 1
                /\ \A w \in Carriers(fp) :
                       StatusesFor(w, fp) \in {{"created"}, {"deduplicated"}}
                /\ Cardinality({r \in sleep_days : r.fingerprint = fp}) = 1)
    /\ [][\A w \in Workers :
             Commits(w) =>
                 \A i \in 1..Len(pipe[w].cands) :
                     \E r \in sleep_days' :
                         /\ r.fingerprint = pipe[w].cands[i].fingerprint
                         /\ Measurements(r) = Measurements(pipe[w].cands[i])
                         /\ r.extra = pipe[w].cands[i].extra
                         /\ r.raw_payload = pipe[w].cands[i].raw_payload]_vars

\* Two calls under different keys in flight at once: the first has committed
\* its candidate as created and not yet completed its key, the second has
\* upserted the same fingerprint with other measurements as deduplicated;
\* the one canonical row still has the first call's values.
C32_Witness ==
    \E w1, w2 \in Workers :
        /\ pc[w1] = "complete" /\ pc[w2] = "commit"
        /\ call[w1].key # call[w2].key
        /\ call[w1].patient_id = call[w2].patient_id
        /\ Outcomes(pipe[w1].results) = <<"created">>
        /\ Outcomes(pipe[w2].results) = <<"deduplicated">>
        /\ pipe[w1].cands[1].fingerprint = pipe[w2].cands[1].fingerprint
        /\ Measurements(pipe[w1].cands[1]) # Measurements(pipe[w2].cands[1])
        /\ \E r \in sleep_days : Measurements(r) = Measurements(pipe[w1].cands[1])

\* ------------------------------------------------------------ batch counts
\* An ingest_sleep_data call of worker w has returned its IngestResult (to
\* the direct caller or to the replay loop).
ResultReturned(w) == pc[w] \in {"returned", "replay_next"} /\ pipe[w].raw_id # 0

CountOf(results, status) ==
    Cardinality({i \in 1..Len(results) : results[i].status = status})

\* C33: the counts of every returned IngestResult agree with its per-record
\* outcomes: records_inserted is the number of created outcomes,
\* records_updated the number of deduplicated ones, records_processed their
\* sum, and records_quarantined the number of quarantined ones, except
\* that after an adapter failure records_quarantined is 1 and the outcome
\* list is empty.
C33_CountsMatchOutcomes ==
    \A w \in Workers :
        ResultReturned(w) =>
            LET p == pipe[w]
            IN  /\ p.records_inserted = CountOf(p.results, "created")
                /\ p.records_updated = CountOf(p.results, "deduplicated")
                /\ p.records_processed = p.records_inserted + p.records_updated
                /\ IF AdapterFailed(w)
                   THEN p.records_quarantined = 1 /\ p.results = <<>>
                   ELSE p.records_quarantined = CountOf(p.results, "quarantined")
                /\ \A i \in 1..Len(p.results) :
                       p.results[i].status \in {"created", "deduplicated", "quarantined"}

\* A returned batch of three candidates with one created and two
\* quarantined outcomes.
C33_Witness ==
    /\ IngestReturned
    /\ Len(pipe[Caller].results) = 3
    /\ pipe[Caller].records_inserted = 1
    /\ pipe[Caller].records_quarantined = 2
    /\ pipe[Caller].records_processed = 1

\* --------------------------------------------- a key whose pipeline failed
\* The pipeline of worker w raised after its claim.
Failed(w) == pc[w] = "failed"

\* The row worker w's claim inserted, while it is in the table.
RowOf(w) ==
    {r \in idempotency_keys : r.key = call[w].key /\ r.created_at = claim[w].now}

\* The step in which the claim of worker v returns.
ClaimAnswered(v) == claim[v].result.status = "none" /\ claim'[v].result.status # "none"

\* Worker v sends the key and body of worker w's request.
Resends(v, w) ==
    /\ v # w
    /\ call[v].kind = "endpoint"
    /\ call[v].key = call[w].key
    /\ call[v].request_hash = call[w].request_hash

\* The failed worker's row is live for the claim that v is running.
LiveFor(v, w) == \E r \in RowOf(w) : r.expires_at > txn[v].now

\* C34, as stated: after the pipeline of a claimed request failed, the
\* key's row keeps its lock and gets no status until it is purged; a later
\* claim with the key and body is answered in_flight while the row is live,
\* and claimed only once the row's expiry has elapsed.
C34_KeyHeldUntilExpiry ==
    /\ [](\A w \in Workers :
            Failed(w) =>
                \A r \in RowOf(w) : IsSome(r.locked_at) /\ IsNone(r.status_code))
    /\ [][\A w, v \in Workers :
             (Failed(w) /\ Resends(v, w) /\ ClaimAnswered(v)) =>
                 /\ LiveFor(v, w) => claim'[v].result.status = "in_flight"
                 /\ claim'[v].result.status = "claimed" =>
                        txn[v].now >= claim[w].now + IDEMPOTENCY_TTL]_vars

\* The row of the failed worker w carries the response of worker v, which
\* held the key before w and completed after w's claim.
StampedByEarlierHolder(r, w) ==
    \E v \in Workers \ {w} :
        /\ pc[v] = "done" /\ HasClaimed(v)
        /\ call[v].key = call[w].key
        /\ claim[v].now + IDEMPOTENCY_TTL <= claim[w].now
        /\ r.status_code = Some(response[v].status_code)
        /\ r.response_body = response[v].data
        /\ IsNone(r.locked_at)

\* C34, amended: after the pipeline of a claimed request failed, the key's
\* row keeps its lock and gets no status until it is purged, unless the
\* completion of an earlier holder of the key, whose claim had expired
\* before this one was made, stamps it with that holder's response.  A
\* later claim with the key and body that finds the row live is answered
\* in_flight, or completed if the row has been stamped, and a claim is
\* answered claimed only once the row's expiry has elapsed.
C34_KeyHeldUntilExpiryOrStamped ==
    /\ [](\A w \in Workers :
            Failed(w) =>
                \A r \in RowOf(w) :
                    \/ IsSome(r.locked_at) /\ IsNone(r.status_code)
                    \/ StampedByEarlierHolder(r, w))
    /\ [][\A w, v \in Workers :
             (Failed(w) /\ Resends(v, w) /\ ClaimAnswered(v)) =>
                 /\ LiveFor(v, w) =>
                        \/ claim'[v].result.status = "in_flight"
                        \/ /\ claim'[v].result.status = "completed"
                           /\ \E r \in RowOf(w) : IsSome(r.status_code)
                 /\ claim'[v].result.status = "claimed" =>
                        txn[v].now >= claim[w].now + IDEMPOTENCY_TTL]_vars

\* A request was refused as in flight by the row of a worker whose pipeline
\* had failed, and the row is still locked.
C34_Witness ==
    \E w, v \in Workers :
        /\ Failed(w) /\ Resends(v, w)
        /\ pc[v] = "done"
        /\ claim[v].result.status = "in_flight"
        /\ claim[v].seen # {} /\ claim[v].seen \subseteq RowOf(w)
        /\ response[v] = in_flight_response

\* ------------------------------------------------------- stale completion
\* C35: complete matches the row by key alone: whatever row holds the key
\* when worker w completes gets w's status and body and loses its lock,
\* whether or not it is locked, unexpired or the row w's own claim inserted
\* (so a worker whose claim expired and was re-claimed stamps the second
\* worker's in-flight row); and a claim that reads a stamped row with its
\* own request hash returns completed with the stamped status and body.
C35_CompleteMatchesByKeyAlone ==
    /\ [][\A w \in Workers :
             Completes(w) =>
                 \A r \in FoundByComplete(w) :
                     [r EXCEPT !.status_code = Some(response[w].status_code),
                               !.response_body = response[w].data,
                               !.locked_at = None] \in idempotency_keys']_vars
    /\ [][\A v \in Workers :
             ClaimAnswered(v) =>
                 \A r \in claim'[v].seen :
                     (r.request_hash = call[v].request_hash /\ IsSome(r.status_code)) =>
                         /\ claim'[v].result.status = "completed"
                         /\ claim'[v].result.status_code = r.status_code
                         /\ claim'[v].result.response_body = r.response_body]_vars

\* The first worker's claim expired and the second worker re-claimed the
\* key; the first worker then completed, and the row the second worker
\* inserted, whose pipeline is still running, carries the first worker's
\* response and no lock.
C35_Witness ==
    \E w1, w2 \in Workers :
        /\ w1 # w2
        /\ PipelineReturned(w1) /\ pc[w1] = "done"
        /\ HasClaimed(w2) /\ pc[w2] \in {"store_raw", "parse", "candidate", "commit"}
        /\ call[w1].key = call[w2].key
        /\ claim[w1].now < claim[w2].now
        /\ \E r \in idempotency_keys :
               /\ r.key = call[w2].key
               /\ r.created_at = claim[w2].now
               /\ r.status_code = Some(response[w1].status_code)
               /\ r.response_body = response[w1].data
               /\ IsNone(r.locked_at)

\* ------------------------------------------- one vendor night, two patients
\* The rows worker w sees that another patient owns and that have the
\* source, native id and effective date of the candidate it is handling.
OwnedByOther(w) ==
    {r \in SleepDaysView(w) :
        /\ r.source = Candidate(w).source
        /\ r.source_record_id = Candidate(w).source_record_id
        /\ r.effective_date = Candidate(w).effective_date
        /\ r.patient_id # Candidate(w).patient_id}

\* C36: the fingerprint and the uniqueness constraints ignore the patient:
\* when a patient ingests a record whose source, native id and effective
\* date are those of a row another patient owns, the record has that row's
\* fingerprint and is classified deduplicated under that row's id; the row
\* keeps its patient_id and takes the measurements, extension map and raw
\* payload of the incoming record, and no row is created for the incoming
\* record's patient.
C36_UpsertAcrossPatients ==
    [][\A w \in Workers :
          UpsertAttempted(w) =>
              \A r \in OwnedByOther(w) :
                  /\ Candidate(w).fingerprint = r.fingerprint
                  /\ LastResult(w) = RecordResult(Some(r.id), "deduplicated")
                  /\ \E q \in SleepDaysView(w)' :
                         /\ IdentityOf(q) = IdentityOf(r)
                         /\ Measurements(q) = Measurements(Candidate(w))
                         /\ q.extra = Candidate(w).extra
                         /\ q.raw_payload = Candidate(w).raw_payload
                  /\ \A q \in SleepDaysView(w)' :
                         q.patient_id = Candidate(w).patient_id => q \in SleepDaysView(w)
                  /\ Cardinality(SleepDaysView(w)') = Cardinality(SleepDaysView(w))]_vars

\* Patient pB's request was answered deduplicated; the only canonical row
\* belongs to patient pA, who had sent the night with other measurements,
\* and now carries the measurements and raw payload pB sent.
C36_Witness ==
    \E w1, w2 \in Workers :
        /\ PipelineReturned(w1) /\ PipelineReturned(w2) /\ pc[w2] = "done"
        /\ call[w1].patient_id = "pA" /\ call[w2].patient_id = "pB"
        /\ Outcomes(pipe[w1].results) = <<"created">>
        /\ Outcomes(pipe[w2].results) = <<"deduplicated">>
        /\ Measurements(pipe[w1].cands[1]) # Measurements(pipe[w2].cands[1])
        /\ Cardinality(sleep_days) = 1
        /\ \A r \in sleep_days :
               /\ r.patient_id = "pA"
               /\ r.id = pipe[w1].cands[1].id
               /\ Measurements(r) = Measurements(pipe[w2].cands[1])
               /\ r.raw_payload = pipe[w2].cands[1].raw_payload

\* ------------------------------------------- one key, two source endpoints
\* C37: the request hash covers the body's patient_id and data and nothing
\* else, and the answer of a claim that reads a live row depends on the
\* row's hash and completion state, never on the source: a request with
\* the key and body of a row claimed through the other source's endpoint is
\* answered in_flight while that row has no status and completed, with the
\* stored status and body of the first source's request, once it has; it
\* is never answered conflict.
C37_ClaimIgnoresSource ==
    /\ [](\A v, w \in Workers :
            (call[v].kind = "endpoint" /\ call[w].kind = "endpoint") =>
                (call[v].request_hash = call[w].request_hash
                    <=> (call[v].patient_id = call[w].patient_id
                         /\ call[v].data = call[w].data)))
    /\ [][\A v \in Workers :
             ClaimAnswered(v) =>
                 \A r \in claim'[v].seen :
                     (r.source # call[v].source
                      /\ r.request_hash = call[v].request_hash) =>
                         /\ claim'[v].result =
                                IF IsSome(r.status_code)
                                THEN [status |-> "completed",
                                      status_code |-> r.status_code,
                                      response_body |-> r.response_body]
                                ELSE ClaimResult("in_flight")
                         /\ response'[v] = endpoint_answer(claim'[v].result)
                         /\ response'[v] # conflict_response]_vars

\* The body first claimed and completed through the oura endpoint was sent
\* with its key to the withings endpoint, which answered with the stored 201
\* and the created record of the oura request.
C37_Witness ==
    \E v, w \in Workers :
        /\ pc[v] = "done" /\ pc[w] = "done"
        /\ call[v].key = call[w].key
        /\ call[w].source = "oura" /\ call[v].source = "withings"
        /\ PipelineReturned(w)
        /\ claim[v].result.status = "completed"
        /\ \A r \in claim[v].seen : r.source = "oura"
        /\ response[v] = response[w]
        /\ response[v].status_code = HTTP_CREATED

\* ------------------------------------------- a bad entry aborts the batch
\* An Oura entry the mapper keeps that has no id or no day, or one of whose
\* durations is negative, so that it maps to a negative minute value.
BreaksMapping(e) ==
    /\ OuraKeeps(e)
    /\ \/ IsNone(e.id)
       \/ IsNone(e.day)
       \/ \E f \in {"total_sleep_duration", "deep_sleep_duration",
                    "light_sleep_duration", "rem_sleep_duration", "awake_time"} :
              IsSome(e[f]) /\ Val(e[f]) < 0

\* The payload of worker w's call has several entries, one of which breaks
\* the mapping.
BadEntryInBatch(w) ==
    /\ call[w].source = "oura"
    /\ Len(call[w].data.entries) >= 2
    /\ \E i \in 1..Len(call[w].data.entries) : BreaksMapping(call[w].data.entries[i])

\* C38: when an entry of a multi-entry payload that the Oura mapper keeps
\* maps to a negative minute value or lacks its id or day, parse raises and
\* the call quarantines the whole payload once as adapter_parse_error: no
\* entry of the payload becomes a candidate, none is validated, stored or
\* quarantined on its own, and the call commits the raw row and that one
\* quarantine row only.
C38_BadEntryAbortsBatch ==
    [][\A w \in Workers :
          (Commits(w) /\ BadEntryInBatch(w)) =>
              /\ pipe[w].cands = <<>>
              /\ pipe[w].violations = <<>>
              /\ pipe[w].results = <<>>
              /\ pipe[w].records_quarantined = 1
              /\ sleep_days' = sleep_days
              /\ Len(raw_vendor_responses') = Len(raw_vendor_responses) + 1
              /\ quarantine_records' =
                     Append(quarantine_records,
                            QuarantineRow(call[w], "adapter", "adapter_parse_error",
                                          <<>>, call[w].data, None, None,
                                          pipe[w].raw_id))]_vars

\* A call returned whose payload had a valid night followed by an entry
\* without a day: the store has no canonical row and one quarantine row,
\* which holds the whole payload.
C38_Witness ==
    /\ IngestReturned
    /\ BadEntryInBatch(Caller)
    /\ ~BreaksMapping(call[Caller].data.entries[1])
    /\ IsNone(call[Caller].data.entries[2].day)
    /\ sleep_days = {}
    /\ Len(quarantine_records) = 1
    /\ quarantine_records[1].quarantine_reason = "adapter_parse_error"
    /\ quarantine_records[1].raw_payload = call[Caller].data

\* ------------------------------------------------------- one replay pass
\* The ingest calls of worker w's replay pass that are under way or still
\* to be made.
Pending(w) ==
    Cardinality(replay[w].todo)
    + (IF pc[w] \in {"store_raw", "parse", "adapter_quarantine", "candidate", "commit"}
       THEN 1 ELSE 0)

Replaying(w) == call[w].kind = "replay"

\* C39: replay_from_raw reads the matching raw rows once, when it is called,
\* and ingests each of them exactly once: the rows still to ingest are
\* always among those read at the start, whatever the replayed calls append;
\* every ingest that returns moves one row from pending to replayed; and
\* the pass ends by returning its totals with no row left, so replayed is
\* the number of rows that matched when it started.  A later pass reads the
\* appended rows too.
C39_ReplayIngestsEachOnce ==
    /\ [](\A w \in Workers :
            (Replaying(w) /\ pc[w] \notin {"replay_next", "store_raw", "parse",
                                           "adapter_quarantine", "candidate", "commit"})
                => (pc[w] = "returned" /\ replay[w].todo = {}))
    /\ [][\A w \in Workers :
             /\ (~Replaying(w) /\ Replaying(w)') =>
                    /\ replay'[w].replayed = 0
                    /\ replay'[w].todo = ReplayMatches(call'[w])
             /\ (Replaying(w) /\ Replaying(w)') =>
                    /\ replay'[w].todo \subseteq replay[w].todo
                    /\ replay'[w].replayed + Pending(w)' = replay[w].replayed + Pending(w)]_vars

====
